---- MODULE Spec2Model ----
(***************************************************************************)
(* Model of the adaptive cache of                                          *)
(* "contracts/Proper Cache Invalidation Strategy/cache.rs":                *)
(* CacheManager (store, metrics, logical clock, event bus) with its public *)
(* operations, run by concurrent callers, and the background task spawned  *)
(* by CacheManager::new (periodic TTL sweep + bus events).                 *)
(*                                                                         *)
(* Granularity: one step per stretch of code between two suspension points *)
(* that matter.  Every critical section on `store` contains no await, so   *)
(* "acquire store lock; body; drop" is one step.  The `metrics` write      *)
(* guard taken by `set` lives until the end of `set`, across the call of   *)
(* evict_lru, so the metrics lock is modelled explicitly.                  *)
(***************************************************************************)
EXTENDS Integers, Sequences, FiniteSets, TLC

\* ---------------------------------------------------------------- bounds
MaxOps == 3          \* calls and publishes the environment may start
MaxTime == 1         \* Instant::now() ranges over 0..MaxTime
BusCapacity == 1     \* broadcast::channel(256), scaled down
SweepInterval == 1   \* interval(Duration::from_secs(60)), in model time units
U64 == 2 ^ 16        \* width of u64 / usize arithmetic, scaled down

None == "none"
Callers == {"c1", "c2"}

\* Strings are sequences of characters, so that `contains` is computed.
CorridorPrefix == <<"c", "o", "r", "r", "i", "d", "o", "r", ":">>
AnchorPrefix == <<"a", "n", "c", "h", "o", "r", ":">>
Ids == {<<"a">>}
\* format!("corridor:{}", corridor_id), format!("anchor:{}", anchor_id)
Format(prefix, id) == prefix \o id

KeyCorridorA == Format(CorridorPrefix, <<"a">>)
KeyAnchorA == Format(AnchorPrefix, <<"a">>)
Keys == {KeyCorridorA, KeyAnchorA}
Values == {"v1", "v2"}
TTLs == {0}
Patterns == {<<"r", ":", "a">>, <<"c", "h">>}
Capacities == {1, 2}
Targets == {0, 1, 3}

\* CacheInvalidationEvent
Events ==
  [type : {"PaymentDetected"}, corridor_id : Ids]
    \cup [type : {"AnchorStatusChanged"}, anchor_id : Ids]
    \cup [type : {"AdminInvalidate"}, pattern : Patterns]
    \cup [type : {"TtlSweep"}]
    \cup [type : {"MemoryPressure"}, target_size : Targets]

VARIABLES
  store,        \* HashMap<String, CacheEntry<V>>: a function on the present keys
  metrics,      \* CacheMetrics
  capacity,     \* CacheManager.capacity
  clock,        \* AtomicU64 logical clock
  now,          \* Instant::now()
  metricsLock,  \* holder of the metrics RwLock write guard, or None
  pc,           \* each caller task's position (its domain: the tasks)
  frame,        \* each caller's locals
  wpc,          \* the background task's position
  wframe,       \* the background task's locals
  subscribed,   \* the background task's receiver exists (event_tx.subscribe())
  rxQueue,      \* events retained for the background task's receiver
  rxLag,        \* events the receiver missed (RecvError::Lagged(n))
  nextTick,     \* sweep_ticker's next deadline
  opsLeft,      \* remaining budget of calls and publishes
  pending,      \* history: keys present when a matching PaymentDetected or
                \* AnchorStatusChanged was published with no call in progress,
                \* and neither removed nor set again since
  matched,      \* replay: the last matches_filter call (event, filter, result)
  log,          \* replay: table contract_events, the rows in insertion order
  appended,     \* replay: history, the events store_event has accepted
  queried,      \* replay: the last get_events_in_range call and its result
  builder,      \* replay: each StateBuilder's state and idempotency index
  applied,      \* replay: the last apply_event call and its ProcessingResult
  session,      \* replay: the replay session (config, status, cursor, counters)
  checkpoints,  \* replay: table replay_checkpoints
  rnow,         \* replay: Utc::now()
  persisted,    \* replay: table replay_state, ledger -> (state, state_hash)
  loaded,       \* replay: the last load_state or verify_state call
  dropped,      \* the CacheManager has been dropped
  rules,        \* InvalidationService.rules
  spc,          \* the InvalidationService task's position
  svcQueue,     \* events retained for the service's receiver rx
  svcLag,       \* events the service's receiver missed
  busOpen,      \* some Sender of the bus is alive
  handled,      \* the last event the service received, if any
  requested,    \* the strategies passed to on_invalidate for that event
  lagLog,       \* the lag counts written to the log, in order
  snapshots,    \* contract: DataKey::Snapshots, Map<u64, Snapshot>
  latest_epoch, \* contract: DataKey::LatestEpoch, Option<u64>
  submitted     \* contract: history, the submit_snapshot calls in order

vars == <<store, metrics, capacity, clock, now, metricsLock, pc, frame, wpc,
          wframe, subscribed, rxQueue, rxLag, nextTick, opsLeft, pending,
          matched, log, appended, queried, builder, applied, session,
          checkpoints, rnow, persisted, loaded, dropped, rules, spc, svcQueue,
          svcLag, busOpen, handled, requested, lagLog, snapshots, latest_epoch,
          submitted>>

CacheVars == <<store, metrics, capacity, clock, now, metricsLock, pc, frame,
               wpc, wframe, subscribed, rxQueue, rxLag, nextTick, opsLeft,
               pending>>

ReplayVars == <<matched, log, appended, queried, builder, applied, session,
                checkpoints, rnow, persisted, loaded>>

PersistVars == <<persisted, loaded>>

ServiceVars == <<dropped, rules, spc, svcQueue, svcLag, busOpen, handled,
                 requested, lagLog>>

ContractVars == <<snapshots, latest_epoch, submitted>>

\* ------------------------------------------------------- replay: data

\* Option<T>
Absent(empty) == [some |-> FALSE, val |-> empty]
Some(v) == [some |-> TRUE, val |-> v]

SnapshotSubmitted == "snapshot_submitted"

\* data payloads: json!({"epoch": .., "hash": ..}), or a payload without them
SnapshotData(epoch, hash) == [has_epoch |-> TRUE, epoch |-> epoch, hash |-> hash]
NoData == [has_epoch |-> FALSE, epoch |-> 0, hash |-> ""]

\* ContractEvent
ContractEvent(id, ledger, tx, contract, type, data, network) ==
  [id |-> id, ledger_sequence |-> ledger, transaction_hash |-> tx,
   contract_id |-> contract, event_type |-> type, data |-> data,
   network |-> network]

\* The events of the model.  E1 and E2 carry the same epoch, E4 has a type
\* without handler, E5 a snapshot_submitted payload its handler rejects, E6
\* the ledger, transaction and type of E1 under another id, E7 the id of E1
\* with another content.
E1 == ContractEvent("e1", 1, "t1", "ca", SnapshotSubmitted, SnapshotData(1, "h1"), "testnet")
E2 == ContractEvent("e2", 2, "t2", "cb", SnapshotSubmitted, SnapshotData(1, "h2"), "testnet")
E3 == ContractEvent("e3", 2, "t3", "ca", SnapshotSubmitted, SnapshotData(2, "h3"), "mainnet")
E4 == ContractEvent("e4", 3, "t4", "cb", "other", NoData, "mainnet")
E5 == ContractEvent("e5", 1, "t5", "ca", SnapshotSubmitted, NoData, "testnet")
E6 == ContractEvent("e6", 1, "t1", "ca", SnapshotSubmitted, SnapshotData(1, "h1"), "testnet")
E7 == ContractEvent("e1", 2, "t7", "cb", "other", NoData, "testnet")
ContractEvents == {E1, E2, E3, E4, E5, E6, E7}

\* EventFilter
EventFilter(contracts, types, network) ==
  [contract_ids |-> contracts, event_types |-> types, network |-> network]

\* EventFilter::default()
DefaultFilter == EventFilter(Absent(<<>>), Absent(<<>>), Absent(""))

ContractIdFilters ==
  {Absent(<<>>), Some(<<>>), Some(<<"ca">>), Some(<<"cb", "ca">>)}
EventTypeFilters == {Absent(<<>>), Some(<<>>), Some(<<SnapshotSubmitted>>)}
NetworkFilters == {Absent(""), Some("testnet"), Some("mainnet")}
EventFilters ==
  {EventFilter(c, t, n) :
     c \in ContractIdFilters, t \in EventTypeFilters, n \in NetworkFilters}

\* variant: a present but empty list accepts every value
VecContainsOrEmpty(v, x) == v = <<>> \/ \E i \in 1..Len(v) : v[i] = x

\* Vec::contains
VecContains(v, x) == \E i \in 1..Len(v) : v[i] = x

\* ContractEvent::matches_filter
MatchesFilter(e, f) ==
  IF f.contract_ids.some /\ ~VecContains(f.contract_ids.val, e.contract_id)
    THEN FALSE
    ELSE IF f.event_types.some /\ ~VecContains(f.event_types.val, e.event_type)
           THEN FALSE
           ELSE IF f.network.some /\ e.network # f.network.val
                  THEN FALSE
                  ELSE TRUE

NoMatch == [called |-> FALSE, event |-> E1, filter |-> DefaultFilter,
            result |-> FALSE]

\* ------------------------------------------------------ pure definitions

\* variant: p occurs in k at the start only (str::starts_with)
StartsWith(k, p) == Len(p) <= Len(k) /\ SubSeq(k, 1, Len(p)) = p

\* str::contains: p occurs in k as a contiguous substring
Contains(k, p) ==
  \E i \in 1..(Len(k) - Len(p) + 1) : SubSeq(k, i, i + Len(p) - 1) = p

\* variant: an entry already counts as expired at the instant expires_at
IsExpiredInclusive(e, t) == t >= e.expires_at

\* CacheEntry::is_expired at instant t
IsExpired(e, t) == t > e.expires_at

Size(s) == Cardinality(DOMAIN s)

\* HashMap::insert
Insert(s, k, e) == [x \in (DOMAIN s) \cup {k} |-> IF x = k THEN e ELSE s[x]]

\* variant: removing one key clears the map
RemoveAll(s, k) == [x \in {} |-> s[x]]

\* HashMap::remove
Remove(s, k) == [x \in (DOMAIN s) \ {k} |-> s[x]]

\* store.retain(|k, _| !k.contains(pattern))
RetainNotContaining(s, p) ==
  [x \in {k \in DOMAIN s : ~Contains(k, p)} |-> s[x]]

\* store.retain(|_, e| !e.is_expired())
RetainUnexpired(s, t) ==
  [x \in {k \in DOMAIN s : ~IsExpired(s[k], t)} |-> s[x]]

\* variant: the most recently used key (max_by_key)
MruKey(s) ==
  CHOOSE k \in DOMAIN s : \A j \in DOMAIN s : s[k].last_used >= s[j].last_used

\* store.iter().min_by_key(|(_, e)| e.last_used)
LruKey(s) ==
  CHOOSE k \in DOMAIN s : \A j \in DOMAIN s : s[k].last_used <= s[j].last_used

\* variant: target_size entries are removed, whatever the size
RECURSIVE EvictCount(_, _)
EvictCount(s, target) ==
  IF target > 0 /\ DOMAIN s # {}
    THEN EvictCount(Remove(s, LruKey(s)), target - 1)
    ELSE s

\* while s.len() > target_size { remove the min_by_key entry }
RECURSIVE EvictDownTo(_, _)
EvictDownTo(s, target) ==
  IF Size(s) > target /\ DOMAIN s # {}
    THEN EvictDownTo(Remove(s, LruKey(s)), target)
    ELSE s

\* variant: the bare id as the pattern, without the "corridor:" / "anchor:"
\* prefix
EventPatternIdOnly(ev) ==
  CASE ev.type = "PaymentDetected" -> ev.corridor_id
    [] ev.type = "AnchorStatusChanged" -> ev.anchor_id
    [] ev.type = "AdminInvalidate" -> ev.pattern

\* the pattern the background task derives from an invalidation event
EventPattern(ev) ==
  CASE ev.type = "PaymentDetected" -> Format(CorridorPrefix, ev.corridor_id)
    [] ev.type = "AnchorStatusChanged" -> Format(AnchorPrefix, ev.anchor_id)
    [] ev.type = "AdminInvalidate" -> ev.pattern

NoFrame ==
  [key |-> <<>>, value |-> None, expires_at |-> 0, seq |-> 0, size |-> 0,
   removed |-> 0, hit |-> FALSE]

NoWFrame == [kind |-> None, removed |-> 0, size |-> 0, target |-> 0]

EmptyStore == [x \in {} |-> None]

DefaultMetrics ==
  [hits |-> 0, misses |-> 0, invalidations |-> 0, evictions |-> 0,
   warm_ups |-> 0, current_size |-> 0]

\* --------------------------------------------- replay: state builder

Builders == {"b1", "b2"}

\* variant: the ledger of the event applied last
MaxIsLast(a, b) == b

Max(a, b) == IF a >= b THEN a ELSE b

\* ApplicationState before any event: ledger 0, no snapshot
NoSnapshots == [x \in {} |-> [hash |-> "", ledger_sequence |-> 0]]
InitialState == [ledger |-> 0, snapshots |-> NoSnapshots]

\* StateBuilder::new: the initial state and an empty idempotency index
NewBuilder == [state |-> InitialState, index |-> {}]

\* the handler of snapshot_submitted rejects a payload without epoch and hash
HandlerRejects(e) == e.event_type = SnapshotSubmitted /\ ~e.data.has_epoch

\* the handler selected by event_type: snapshot_submitted inserts
\* state.snapshots[epoch]; a type without handler changes nothing
Handle(st, e) ==
  IF e.event_type = SnapshotSubmitted
    THEN [st EXCEPT !.snapshots =
            Insert(st.snapshots, e.data.epoch,
                   [hash |-> e.data.hash,
                    ledger_sequence |-> e.ledger_sequence])]
    ELSE st

\* variant: an event whose id is in the index is folded in again
ApplyEventAgain(b, e) ==
  IF HandlerRejects(e)
    THEN b
    ELSE [state |-> [Handle(b.state, e) EXCEPT
                       !.ledger = b.state.ledger + e.ledger_sequence],
          index |-> b.index \cup {e.id}]

\* StateBuilder::apply_event, the builder after the call
ApplyEvent(b, e) ==
  IF e.id \in b.index
    THEN b
    ELSE IF HandlerRejects(e)
           THEN b
           ELSE [state |-> [Handle(b.state, e) EXCEPT
                              !.ledger = Max(b.state.ledger, e.ledger_sequence)],
                 index |-> b.index \cup {e.id}]

\* StateBuilder::apply_event, the ProcessingResult it returns
ApplyResult(b, e) ==
  IF e.id \in b.index
    THEN [success |-> TRUE, skipped |-> TRUE, error |-> FALSE]
    ELSE IF HandlerRejects(e)
           THEN [success |-> FALSE, skipped |-> FALSE, error |-> TRUE]
           ELSE [success |-> TRUE, skipped |-> FALSE, error |-> FALSE]

\* the engine's count of one apply_event outcome: events_failed for an error,
\* events_processed otherwise (a skipped duplicate counts as processed)
Tally(c, r) ==
  IF r.error
    THEN [c EXCEPT !.failed = @ + 1]
    ELSE [c EXCEPT !.processed = @ + 1]

NoCount == [processed |-> 0, failed |-> 0]

\* the canonical serialization of the snapshots: entries in key order
RECURSIVE SortedEntries(_)
SortedEntries(m) ==
  IF DOMAIN m = {}
    THEN <<>>
    ELSE LET k == CHOOSE x \in DOMAIN m : \A y \in DOMAIN m : x <= y IN
           <<<<k, m[k].hash, m[k].ledger_sequence>>>> \o SortedEntries(Remove(m, k))

\* ApplicationState::compute_hash: SHA-256 of the canonical serialization.
\* The digest is represented by the text it is computed from (no collisions).
ComputeHash(st) == <<st.ledger, SortedEntries(st.snapshots)>>

NoApplied ==
  [called |-> FALSE, builder |-> "b1", event |-> E1,
   result |-> [success |-> FALSE, skipped |-> FALSE, error |-> FALSE]]

\* ------------------------------------------ replay: state persistence

PersistLedgers == 0..2

\* the table replay_state, empty
NoPersisted == [l \in {} |-> [state |-> InitialState,
                              state_hash |-> ComputeHash(InitialState)]]

\* persist_state, the table after the call: the row of state.ledger written
\* with the serialized state and its hash
Persisted(tbl, st) ==
  Insert(tbl, st.ledger, [state |-> st, state_hash |-> ComputeHash(st)])

\* a stored hash that no state has
CorruptedHash == <<9, <<>>>>

\* variant: the stored hash is not compared
HashAgreesAlways(row) == TRUE

\* the corruption detector: the hash recomputed from the stored state against
\* the stored hash
HashAgrees(row) == ComputeHash(row.state) = row.state_hash

\* load_state(ledger), what it returns: false without a row, an error for a
\* row whose hash disagrees, true otherwise
LoadResult(tbl, l) ==
  IF l \notin DOMAIN tbl
    THEN "false"
    ELSE IF HashAgrees(tbl[l]) THEN "true" ELSE "StateCorruption"

\* load_state(ledger), the builder after the call: rehydrated on success only
LoadedBuilder(b, tbl, l) ==
  IF LoadResult(tbl, l) = "true" THEN [b EXCEPT !.state = tbl[l].state] ELSE b

\* verify_state(ledger): the hash of the builder's state against the stored one
Verified(b, tbl, l) ==
  l \in DOMAIN tbl /\ ComputeHash(b.state) = tbl[l].state_hash

NoLoad == [called |-> FALSE, op |-> "", builder |-> "b1", ledger |-> 0,
           result |-> "false"]

\* ------------------------------------------------ replay: event storage

\* the events producers append: ids are globally unique, E1 and E6 share
\* their dedup key
StoreEvents == {E1, E2, E3, E5, E6}

\* ContractEvent::unique_id: "{ledger_sequence}:{transaction_hash}:{event_type}"
UniqueId(e) ==
  ToString(e.ledger_sequence) \o ":" \o e.transaction_hash \o ":" \o e.event_type

\* variant: an event is a duplicate only if its id is stored already
StoredById(l, e) ==
  IF \E i \in DOMAIN l : l[i].id = e.id THEN l ELSE Append(l, e)

\* store_event, the table after the call: an event whose dedup key is stored
\* already is not inserted again
Stored(l, e) ==
  IF \E i \in DOMAIN l : UniqueId(l[i]) = UniqueId(e) THEN l ELSE Append(l, e)

\* ORDER BY id ASC: the ids of the model in ascending order
IdOrder == <<"e1", "e2", "e3", "e4", "e5", "e6">>
IdRank(id) == CHOOSE i \in DOMAIN IdOrder : IdOrder[i] = id

\* ORDER BY ledger_sequence ASC, id ASC
Before(a, b) ==
  \/ a.ledger_sequence < b.ledger_sequence
  \/ a.ledger_sequence = b.ledger_sequence /\ IdRank(a.id) < IdRank(b.id)

RECURSIVE Ordered(_)
Ordered(S) ==
  IF S = {}
    THEN <<>>
    ELSE LET m == CHOOSE x \in S : \A y \in S \ {x} : Before(x, y) IN
           <<m>> \o Ordered(S \ {m})

\* variant: the upper end of the range is excluded
InRangeExclusive(e, low, high) ==
  low <= e.ledger_sequence /\ e.ledger_sequence < high

\* ledger_sequence BETWEEN low AND high
InRange(e, low, high) == low <= e.ledger_sequence /\ e.ledger_sequence <= high

\* LIMIT
Take(q, limit) ==
  IF limit.some /\ limit.val < Len(q) THEN SubSeq(q, 1, limit.val) ELSE q

\* get_events_in_range(low, high, &filter, limit)
GetRange(l, low, high, f, limit) ==
  Take(Ordered({l[i] : i \in {j \in DOMAIN l :
                                InRange(l[j], low, high) /\ MatchesFilter(l[j], f)}}),
       limit)

Ledgers == 1..3
Limits == {Absent(0), Some(2)}
StoreFilters ==
  {DefaultFilter, EventFilter(Some(<<"ca">>), Absent(<<>>), Some("testnet"))}

NoQuery == [called |-> FALSE, low |-> 0, high |-> 0, filter |-> DefaultFilter,
            limit |-> Absent(0), result |-> <<>>]

\* ------------------------------------------- replay: checkpoint manager

MaxCheckpoints == 3
MaxRNow == 2

Sessions == {"s1", "s2"}
CheckpointIds == 1..MaxCheckpoints
Days == {0, 1}

\* Checkpoint (state_snapshot and metadata left out)
Checkpoint(id, sid, last_ledger, processed, failed, created_at) ==
  [id |-> id, session_id |-> sid, last_ledger |-> last_ledger,
   events_processed |-> processed, events_failed |-> failed,
   created_at |-> created_at]

\* CheckpointManager::save, the table after the call: an insert; a checkpoint
\* under a stored id is refused
Saved(cps, cp) ==
  IF \E c \in cps : c.id = cp.id THEN cps ELSE cps \cup {cp}

\* variant: the checkpoints of every session
AllCheckpoints(cps, sid) == cps

\* WHERE session_id = ?
SessionCheckpoints(cps, sid) == {c \in cps : c.session_id = sid}

\* variant: ties of created_at are broken by the id alone
NewerById(a, b) ==
  \/ a.created_at > b.created_at
  \/ a.created_at = b.created_at /\ a.id > b.id

\* ORDER BY created_at DESC, last_ledger DESC, id DESC
Newer(a, b) ==
  \/ a.created_at > b.created_at
  \/ a.created_at = b.created_at /\ a.last_ledger > b.last_ledger
  \/ a.created_at = b.created_at /\ a.last_ledger = b.last_ledger /\ a.id > b.id

NoCheckpoint == Checkpoint(0, "", 0, 0, 0, 0)

\* CheckpointManager::get_latest(session_id)
Latest(cps, sid) ==
  LET S == SessionCheckpoints(cps, sid) IN
    IF S = {}
      THEN Absent(NoCheckpoint)
      ELSE Some(CHOOSE c \in S : \A d \in S \ {c} : Newer(c, d))

\* CheckpointManager::cleanup_old(days), the table after the call
CleanedUp(cps, t, days) == {c \in cps : ~(c.created_at < t - days)}

\* ------------------------------------------------ replay: replay engine

\* ReplayConfig: mode, ReplayRange::FromTo{start, end}, filter, batch size,
\* the expected hash of mode Verify, and the error policy
ReplayConfig(mode, start, end, f, batch_size, expected, policy) ==
  [mode |-> mode, start |-> start, end |-> end, filter |-> f,
   batch_size |-> batch_size, expected |-> expected, policy |-> policy]

\* ReplayConfig::validate
Validate(cfg) == cfg.batch_size >= 1

DefaultConfig ==
  ReplayConfig("Fresh", 1, 3, DefaultFilter, 1, ComputeHash(InitialState),
               "Lenient")

\* ReplayMetadata of a new session: status Pending
NewSession(cfg) ==
  [session_id |-> "s1", config |-> cfg, status |-> "Pending", cursor |-> 0,
   events_processed |-> 0, events_failed |-> 0, last_ledger |-> Absent(0),
   error |-> "", resumed |-> FALSE]

\* variant: a handler error is fatal under every policy
IsFatalAlways(cfg, res) == res.error

\* a handler error is fatal to the session only under the Strict policy
IsFatal(cfg, res) == cfg.policy = "Strict" /\ res.error

\* for each event of a batch, in order: apply_event, then events_processed or
\* events_failed incremented; a fatal handler error ends the batch there
RECURSIVE ProcessBatch(_, _, _)
ProcessBatch(cfg, r, q) ==
  IF q = <<>>
    THEN r
    ELSE LET res == ApplyResult(r.builder, Head(q)) IN
           IF IsFatal(cfg, res)
             THEN [r EXCEPT !.fatal = TRUE]
             ELSE ProcessBatch(cfg,
                               [builder |-> ApplyEvent(r.builder, Head(q)),
                                count |-> Tally(r.count, res),
                                fatal |-> FALSE],
                               Tail(q))

\* one batch: get_range(cursor, range.end, filter, batch_size)
Batch(l, cfg, cursor) ==
  GetRange(l, cursor, cfg.end, cfg.filter, Some(cfg.batch_size))

\* the loop of an uninterrupted replay from cursor: batches until one is empty
RECURSIVE RunFrom(_, _, _, _)
RunFrom(l, cfg, r, cursor) ==
  LET q == Batch(l, cfg, cursor) IN
    IF q = <<>> \/ r.fatal
      THEN r
      ELSE RunFrom(l, cfg, ProcessBatch(cfg, r, q),
                   q[Len(q)].ledger_sequence + 1)

\* an uninterrupted Fresh replay of log l: from range.start, a new builder
FreshReplay(l, cfg) ==
  RunFrom(l, cfg, [builder |-> NewBuilder, count |-> NoCount, fatal |-> FALSE],
          cfg.start)

\* variant: a resumed replay fetches the checkpoint's last ledger again
ResumeCursorAtCheckpoint(cfg, cp) ==
  IF cp.some THEN Max(cfg.start, cp.val.last_ledger) ELSE cfg.start

\* the effective start of a resumed replay:
\* max(range.start, checkpoint.last_ledger + 1)
ResumeCursor(cfg, cp) ==
  IF cp.some THEN Max(cfg.start, cp.val.last_ledger + 1) ELSE cfg.start

\* the effective start ledger of a replay, by mode
EffectiveStart(cfg, cp) ==
  IF cfg.mode = "Resume" THEN ResumeCursor(cfg, cp) ELSE cfg.start

\* variant: a failed session can be resumed too
CanResumeOrFailed(s) == s.status \in {"Paused", "Failed"}

\* resume is for a paused session
CanResume(s) == s.status = "Paused"

\* the logs replayed: E3 stored before E1 and E2; E5 is rejected by its
\* handler and E4 has no handler
EngineLogs == {<<E3, E1, E2>>, <<E5, E2, E4>>}

Policies == {"Strict", "Lenient"}

ReplayConfigs(l) ==
  {ReplayConfig(mode, start, 3, DefaultFilter, batch_size,
                ComputeHash(InitialState), policy) :
     mode \in {"Fresh", "Resume"}, start \in 1..2, batch_size \in 0..2,
     policy \in Policies}
  \cup
  {ReplayConfig("Verify", start, 3, DefaultFilter, batch_size, expected, policy) :
     start \in 1..2, batch_size \in 0..2, policy \in Policies,
     expected \in {ComputeHash(InitialState),
                   ComputeHash(FreshReplay(l,
                     ReplayConfig("Verify", 1, 3, DefaultFilter, 1,
                                  ComputeHash(InitialState),
                                  "Lenient")).builder.state)}}

\* ------------------------------------------------------ replay: Init

\* everything of the replay system but the event log and the session: no
\* call made, new state builders, no checkpoint
NoReplay ==
  /\ matched = NoMatch
  /\ queried = NoQuery
  /\ builder = [n \in Builders |-> NewBuilder]
  /\ applied = NoApplied
  /\ checkpoints = {}
  /\ rnow = 0
  /\ persisted = NoPersisted
  /\ loaded = NoLoad

\* the tables as setup_test_db leaves them: no event stored; a session of
\* the default configuration, not started
ReplayInit ==
  /\ log = <<>>
  /\ appended = {}
  /\ session = NewSession(DefaultConfig)
  /\ NoReplay

\* ------------------------------------------------ invalidation service

\* InvalidationStrategy
Exact(k) == [kind |-> "Exact", arg |-> k]
Pattern(p) == [kind |-> "Pattern", arg |-> p]
Prefix(p) == [kind |-> "Prefix", arg |-> p]
FlushAll == [kind |-> "FlushAll", arg |-> <<>>]

\* InvalidationStrategy::matches
Matches(strategy, key) ==
  CASE strategy.kind = "Exact" -> key = strategy.arg
    [] strategy.kind = "Pattern" -> Contains(key, strategy.arg)
    [] strategy.kind = "Prefix" -> StartsWith(key, strategy.arg)
    [] strategy.kind = "FlushAll" -> TRUE

InvalidationRule(trigger, strategy) == [trigger |-> trigger, strategy |-> strategy]

\* EventTrigger::from_event: the discriminant of the event, without payload
FromEvent(ev) == ev.type

\* "__never_matches_anything__", shortened
NeverMatches == <<"_", "_", "n", "e", "v", "e", "r", "_", "_">>

\* default_rules()
DefaultRules ==
  <<InvalidationRule("PaymentDetected", Prefix(CorridorPrefix)),
    InvalidationRule("AnchorStatusChanged", Prefix(AnchorPrefix)),
    InvalidationRule("AdminInvalidate", FlushAll),
    InvalidationRule("TtlSweep", Pattern(NeverMatches))>>

\* rule tables given to InvalidationService::new: the default one, and two
\* that hold a Prefix rule and a Pattern rule for PaymentDetected, in either
\* order, next to an Exact rule for AnchorStatusChanged
RuleTables ==
  {DefaultRules,
   <<InvalidationRule("PaymentDetected", Prefix(CorridorPrefix)),
     InvalidationRule("AnchorStatusChanged", Exact(KeyAnchorA)),
     InvalidationRule("PaymentDetected", Pattern(KeyCorridorA))>>,
   <<InvalidationRule("PaymentDetected", Pattern(KeyCorridorA)),
     InvalidationRule("PaymentDetected", Prefix(CorridorPrefix))>>}

\* the strategies of the rules whose trigger is that of the event, in the
\* order of the table: for rule in &self.rules { if rule.trigger == trigger
RECURSIVE Triggered(_, _)
Triggered(rs, ev) ==
  IF rs = <<>>
    THEN <<>>
    ELSE (IF Head(rs).trigger = FromEvent(ev)
            THEN <<Head(rs).strategy>>
            ELSE <<>>) \o Triggered(Tail(rs), ev)

NoEvent == [type |-> None]

\* no InvalidationService other than one of the default rules, waiting on a
\* receiver without events; the CacheManager alive
NoService ==
  /\ dropped = FALSE
  /\ rules = DefaultRules
  /\ spc = "s_recv"
  /\ svcQueue = <<>>
  /\ svcLag = 0
  /\ busOpen = TRUE
  /\ handled = NoEvent
  /\ requested = <<>>
  /\ lagLog = <<>>

\* ---------------------------------------------------- snapshot contract

MaxSubmits == 3
Hashes == {"h1", "h2"}
Epochs == 1..3
Timestamps == {1, 2}

Snapshot(hash, epoch, timestamp) ==
  [hash |-> hash, epoch |-> epoch, timestamp |-> timestamp]

\* Map::new(&env)
NoSnapshotMap == [x \in {} |-> Snapshot("", 0, 0)]

\* get_snapshot
GetSnapshot(snaps, epoch) ==
  IF epoch \in DOMAIN snaps THEN Some(snaps[epoch]) ELSE Absent(Snapshot("", 0, 0))

\* get_latest_snapshot
GetLatestSnapshot(snaps, latest) ==
  IF latest.some THEN GetSnapshot(snaps, latest.val) ELSE Absent(Snapshot("", 0, 0))

\* variant: the hash is compared with the snapshot of the greatest epoch only
VerifyNewestSnapshot(snaps, hash) ==
  \E e \in DOMAIN snaps :
    /\ \A d \in DOMAIN snaps : d <= e
    /\ snaps[e].hash = hash

\* verify_snapshot: some stored snapshot has the hash
VerifySnapshot(snaps, hash) ==
  \E e \in DOMAIN snaps : snaps[e].hash = hash

\* the contract as registered: nothing in persistent storage
NoContract ==
  /\ snapshots = NoSnapshotMap
  /\ latest_epoch = Absent(0)
  /\ submitted = <<>>

\* ------------------------------------------------------------------ Init

\* CacheManager::new(capacity): empty store, default metrics, clock 0, a bus
\* whose first receiver was dropped, and the background task spawned but not
\* yet polled.
CacheInit ==
  /\ store = EmptyStore
  /\ metrics = DefaultMetrics
  /\ capacity \in Capacities
  /\ clock = 0
  /\ now = 0
  /\ metricsLock = None
  /\ pc = [p \in {"c1"} |-> "idle"]
  /\ frame = [p \in {"c1"} |-> NoFrame]
  /\ wpc = "w_start"
  /\ wframe = NoWFrame
  /\ subscribed = FALSE
  /\ rxQueue = <<>>
  /\ rxLag = 0
  /\ nextTick = 0
  /\ opsLeft = MaxOps
  /\ pending = {}

Init == CacheInit /\ ReplayInit /\ NoService /\ NoContract

\* a stored log and a session of a valid configuration, not started
EngineInit ==
  /\ CacheInit
  /\ log \in EngineLogs
  /\ appended = {log[i] : i \in DOMAIN log}
  /\ session \in {NewSession(cfg) : cfg \in {c \in ReplayConfigs(log) : Validate(c)}}
  /\ NoReplay
  /\ NoService
  /\ NoContract

CallerVars == <<pc, frame>>
WorkerVars == <<wpc, wframe, subscribed, rxQueue, rxLag, nextTick>>
BusVars == <<subscribed, rxQueue, rxLag>>

\* history: a key that left the store is no longer awaited
PendingKeep == pending' = pending \cap DOMAIN store'

\* caller task p exists and stands at label
At(p, label) == p \in DOMAIN pc /\ pc[p] = label

\* caller task p may start a call.  The tasks are interchangeable: "c2" makes
\* a call only while "c1" is inside one.
CanCall(p) ==
  /\ At(p, "idle")
  /\ opsLeft > 0
  /\ p = "c2" => pc["c1"] # "idle"

\* a caller returns to its caller
Return(p) ==
  /\ pc' = [pc EXCEPT ![p] = "idle"]
  /\ frame' = [frame EXCEPT ![p] = NoFrame]

Goto(p, label, f) ==
  /\ pc' = [pc EXCEPT ![p] = label]
  /\ frame' = [frame EXCEPT ![p] = f]

\* --------------------------------------------------------------- callers

\* set, up to store.write().await: the clock value and the expiry are taken
\* before the store lock is requested.
SetBegin(p, k, v, ttl) ==
  /\ CanCall(p)
  /\ opsLeft' = opsLeft - 1
  /\ clock' = (clock + 1) % U64
  /\ Goto(p, "set_store",
          [NoFrame EXCEPT !.key = k, !.value = v,
                          !.expires_at = now + ttl, !.seq = clock])
  /\ UNCHANGED <<store, metrics, capacity, now, metricsLock, WorkerVars>>
  /\ PendingKeep
  /\ UNCHANGED ReplayVars
  /\ UNCHANGED <<ServiceVars, ContractVars>>

\* set: store.insert(key, entry); size = store.len(); drop(store)
SetStore(p) ==
  /\ At(p, "set_store")
  /\ store' = Insert(store, frame[p].key,
                     [value |-> frame[p].value,
                      expires_at |-> frame[p].expires_at,
                      last_used |-> frame[p].seq])
  /\ Goto(p, "set_metrics", [NoFrame EXCEPT !.size = Size(store')])
  /\ UNCHANGED <<metrics, capacity, clock, now, metricsLock, WorkerVars, opsLeft>>
  /\ pending' = pending \ {frame[p].key}
  /\ UNCHANGED ReplayVars
  /\ UNCHANGED <<ServiceVars, ContractVars>>

\* variant: set calls evict_lru only from two entries over the capacity
OverCapacityByTwo(size, cap) == size > cap + 1

\* set: if size > self.capacity
OverCapacity(size, cap) == size > cap

\* set: let mut m = self.metrics.write().await; m.current_size = size;
\* if size > capacity the guard m stays alive while evict_lru is awaited.
\* evict_lru's own self.metrics.write().await is the same acquisition point
\* reached from pc "evict_metrics".
SetMetrics(p) ==
  /\ \/ At(p, "set_metrics")
     \/ At(p, "evict_metrics")
  /\ metricsLock = None
  /\ IF pc[p] = "set_metrics"
       THEN /\ metrics' = [metrics EXCEPT !.current_size = frame[p].size]
            /\ IF OverCapacity(frame[p].size, capacity)
                 THEN /\ metricsLock' = p
                      /\ Goto(p, "evict_store", frame[p])
                 ELSE /\ metricsLock' = None
                      /\ Return(p)
       ELSE /\ metrics' = [metrics EXCEPT
                             !.evictions = (@ + 1) % U64,
                             !.current_size = frame[p].size]
            /\ metricsLock' = None
            /\ Return(p)
  /\ UNCHANGED <<store, capacity, clock, now, WorkerVars, opsLeft>>
  /\ PendingKeep
  /\ UNCHANGED ReplayVars
  /\ UNCHANGED <<ServiceVars, ContractVars>>

\* evict_lru, the store part: return early when the store no longer exceeds
\* the capacity (set then returns and drops its guard m), else remove the
\* entry with the smallest last_used.
EvictStore(p) ==
  /\ At(p, "evict_store")
  /\ IF Size(store) <= capacity
       THEN /\ store' = store
            /\ metricsLock' = IF metricsLock = p THEN None ELSE metricsLock
            /\ Return(p)
       ELSE /\ store' = Remove(store, LruKey(store))
            /\ metricsLock' = metricsLock
            /\ Goto(p, "evict_metrics", [frame[p] EXCEPT !.size = Size(store')])
  /\ UNCHANGED <<metrics, capacity, clock, now, WorkerVars, opsLeft>>
  /\ PendingKeep
  /\ UNCHANGED ReplayVars
  /\ UNCHANGED <<ServiceVars, ContractVars>>

\* get, the store part: expired entry removed, live entry touched
GetStore(p, k) ==
  /\ CanCall(p)
  /\ opsLeft' = opsLeft - 1
  /\ IF k \in DOMAIN store
       THEN IF IsExpired(store[k], now)
              THEN /\ store' = Remove(store, k)
                   /\ clock' = clock
                   /\ Goto(p, "get_metrics", NoFrame)
              ELSE /\ store' = [store EXCEPT ![k].last_used = clock]
                   /\ clock' = (clock + 1) % U64
                   /\ Goto(p, "get_metrics",
                           [NoFrame EXCEPT !.hit = TRUE,
                                           !.value = store[k].value])
       ELSE /\ store' = store
            /\ clock' = clock
            /\ Goto(p, "get_metrics", NoFrame)
  /\ UNCHANGED <<metrics, capacity, now, metricsLock, WorkerVars>>
  /\ PendingKeep
  /\ UNCHANGED ReplayVars
  /\ UNCHANGED <<ServiceVars, ContractVars>>

\* variant: every get is counted as a hit
GetMetricsHitOnly(p) ==
  /\ At(p, "get_metrics")
  /\ metricsLock = None
  /\ metrics' = [metrics EXCEPT !.hits = (@ + 1) % U64]
  /\ Return(p)
  /\ UNCHANGED <<store, capacity, clock, now, metricsLock, WorkerVars, opsLeft>>
  /\ PendingKeep
  /\ UNCHANGED ReplayVars
  /\ UNCHANGED <<ServiceVars, ContractVars>>

\* get, the metrics part: hits or misses, then Some(value) or None is returned
GetMetrics(p) ==
  /\ At(p, "get_metrics")
  /\ metricsLock = None
  /\ metrics' = IF frame[p].hit
                  THEN [metrics EXCEPT !.hits = (@ + 1) % U64]
                  ELSE [metrics EXCEPT !.misses = (@ + 1) % U64]
  /\ Return(p)
  /\ UNCHANGED <<store, capacity, clock, now, metricsLock, WorkerVars, opsLeft>>
  /\ PendingKeep
  /\ UNCHANGED ReplayVars
  /\ UNCHANGED <<ServiceVars, ContractVars>>

\* invalidate, the store part
InvalidateStore(p, k) ==
  /\ CanCall(p)
  /\ opsLeft' = opsLeft - 1
  /\ store' = Remove(store, k)
  /\ Goto(p, "inv_metrics",
          [NoFrame EXCEPT !.removed = 1, !.size = Size(store')])
  /\ UNCHANGED <<metrics, capacity, clock, now, metricsLock, WorkerVars>>
  /\ PendingKeep
  /\ UNCHANGED ReplayVars
  /\ UNCHANGED <<ServiceVars, ContractVars>>

\* invalidate_pattern, the store part
InvalidatePatternStore(p, pat) ==
  /\ CanCall(p)
  /\ opsLeft' = opsLeft - 1
  /\ store' = RetainNotContaining(store, pat)
  /\ Goto(p, "invp_metrics",
          [NoFrame EXCEPT !.removed = Size(store) - Size(store'),
                          !.size = Size(store')])
  /\ UNCHANGED <<metrics, capacity, clock, now, metricsLock, WorkerVars>>
  /\ PendingKeep
  /\ UNCHANGED ReplayVars
  /\ UNCHANGED <<ServiceVars, ContractVars>>

\* flush, the store part
FlushStore(p) ==
  /\ CanCall(p)
  /\ opsLeft' = opsLeft - 1
  /\ store' = EmptyStore
  /\ Goto(p, "flush_metrics",
          [NoFrame EXCEPT !.removed = Size(store)])
  /\ UNCHANGED <<metrics, capacity, clock, now, metricsLock, WorkerVars>>
  /\ PendingKeep
  /\ UNCHANGED ReplayVars
  /\ UNCHANGED <<ServiceVars, ContractVars>>

\* invalidate / invalidate_pattern / flush, the metrics part
InvalidateMetrics(p) ==
  /\ \/ At(p, "inv_metrics")
     \/ At(p, "invp_metrics")
     \/ At(p, "flush_metrics")
  /\ metricsLock = None
  /\ metrics' = [metrics EXCEPT
                   !.invalidations = (@ + frame[p].removed) % U64,
                   !.current_size = frame[p].size]
  /\ Return(p)
  /\ UNCHANGED <<store, capacity, clock, now, metricsLock, WorkerVars, opsLeft>>
  /\ PendingKeep
  /\ UNCHANGED ReplayVars
  /\ UNCHANGED <<ServiceVars, ContractVars>>

\* metrics(): the call is made
MetricsBegin(p) ==
  /\ CanCall(p)
  /\ opsLeft' = opsLeft - 1
  /\ Goto(p, "metrics_read", NoFrame)
  /\ UNCHANGED <<store, metrics, capacity, clock, now, metricsLock, WorkerVars>>
  /\ PendingKeep
  /\ UNCHANGED ReplayVars
  /\ UNCHANGED <<ServiceVars, ContractVars>>

\* metrics(): self.metrics.read().await.clone()
MetricsRead(p) ==
  /\ At(p, "metrics_read")
  /\ metricsLock = None
  /\ Return(p)
  /\ UNCHANGED <<store, metrics, capacity, clock, now, metricsLock, WorkerVars,
                 opsLeft>>
  /\ PendingKeep
  /\ UNCHANGED ReplayVars
  /\ UNCHANGED <<ServiceVars, ContractVars>>

\* variant: a bounded queue whose send waits for room (mpsc-style send)
PublishEventBlocking(ev) ==
  /\ opsLeft > 0
  /\ subscribed => Len(rxQueue) < BusCapacity
  /\ opsLeft' = opsLeft - 1
  /\ rxQueue' = IF subscribed THEN Append(rxQueue, ev) ELSE rxQueue
  /\ rxLag' = rxLag
  /\ UNCHANGED <<store, metrics, capacity, clock, now, metricsLock, CallerVars,
                 wpc, wframe, subscribed, nextTick>>
  /\ pending' =
       IF /\ ev.type \in {"PaymentDetected", "AnchorStatusChanged"}
          /\ \A q \in DOMAIN pc : pc[q] = "idle"
         THEN pending \cup {k \in DOMAIN store : Contains(k, EventPattern(ev))}
         ELSE pending
  /\ UNCHANGED ReplayVars
  /\ UNCHANGED <<ServiceVars, ContractVars>>

\* publish_event: let _ = self.event_tx.send(event).  With no receiver the
\* send fails and the event is gone; with a full buffer the oldest retained
\* event is overwritten and the receiver lags by one more.
PublishEvent(ev) ==
  /\ opsLeft > 0
  /\ opsLeft' = opsLeft - 1
  /\ IF ~subscribed
       THEN UNCHANGED <<rxQueue, rxLag>>
       ELSE IF Len(rxQueue) >= BusCapacity
              THEN /\ rxQueue' = Append(Tail(rxQueue), ev)
                   /\ rxLag' = rxLag + 1
              ELSE /\ rxQueue' = Append(rxQueue, ev)
                   /\ rxLag' = rxLag
  /\ UNCHANGED <<store, metrics, capacity, clock, now, metricsLock, CallerVars,
                 wpc, wframe, subscribed, nextTick>>
  /\ pending' =
       IF /\ ev.type \in {"PaymentDetected", "AnchorStatusChanged"}
          /\ \A q \in DOMAIN pc : pc[q] = "idle"
         THEN pending \cup {k \in DOMAIN store : Contains(k, EventPattern(ev))}
         ELSE pending
  /\ UNCHANGED ReplayVars
  /\ UNCHANGED <<ServiceVars, ContractVars>>

\* ------------------------------------------------------- background task

\* first poll of the spawned task: event_tx.subscribe() and interval(60 s),
\* whose first tick completes immediately
WorkerStart ==
  /\ wpc = "w_start"
  /\ subscribed' = TRUE
  /\ nextTick' = now
  /\ wpc' = "w_select"
  /\ UNCHANGED <<store, metrics, capacity, clock, now, metricsLock, CallerVars,
                 wframe, rxQueue, rxLag, opsLeft>>
  /\ PendingKeep
  /\ UNCHANGED ReplayVars
  /\ UNCHANGED <<ServiceVars, ContractVars>>

\* select! branch sweep_ticker.tick(): the TTL sweep, store part
WorkerTickSweep ==
  /\ wpc \in {"w_select", "w_tick_only"}
  /\ now >= nextTick
  /\ nextTick' = nextTick + SweepInterval
  /\ store' = RetainUnexpired(store, now)
  /\ IF Size(store) - Size(store') > 0
       THEN /\ wpc' = "w_metrics"
            /\ wframe' = [NoWFrame EXCEPT !.kind = "sweep",
                                          !.removed = Size(store) - Size(store'),
                                          !.size = Size(store')]
       ELSE /\ wpc' = "w_select"
            /\ wframe' = NoWFrame
  /\ UNCHANGED <<metrics, capacity, clock, now, metricsLock, CallerVars,
                 BusVars, opsLeft>>
  /\ PendingKeep
  /\ UNCHANGED ReplayVars
  /\ UNCHANGED <<ServiceVars, ContractVars>>

\* select! branch rx.recv() completing with Err(Lagged(n)): the pattern
\* Ok(event) does not match, the branch is disabled for this select! and the
\* task waits for the tick alone.
WorkerRecvLagged ==
  /\ wpc = "w_select"
  /\ subscribed
  /\ rxLag > 0
  /\ rxLag' = 0
  /\ wpc' = "w_tick_only"
  /\ UNCHANGED <<store, metrics, capacity, clock, now, metricsLock, CallerVars,
                 wframe, subscribed, rxQueue, nextTick, opsLeft>>
  /\ PendingKeep
  /\ UNCHANGED ReplayVars
  /\ UNCHANGED <<ServiceVars, ContractVars>>

\* what the arm of an event does to the store, at time t
EventStore(s, ev, t) ==
  CASE ev.type \in {"PaymentDetected", "AnchorStatusChanged",
                    "AdminInvalidate"} ->
         RetainNotContaining(s, EventPattern(ev))
    [] ev.type = "TtlSweep" -> RetainUnexpired(s, t)
    [] ev.type = "MemoryPressure" -> EvictDownTo(s, ev.target_size)

\* select! branch Ok(event) = rx.recv(): the store part of the event's arm
WorkerRecvEvent ==
  /\ wpc = "w_select"
  /\ subscribed
  /\ rxLag = 0
  /\ rxQueue # <<>>
  /\ rxQueue' = Tail(rxQueue)
  /\ LET ev == Head(rxQueue) IN
       /\ store' = EventStore(store, ev, now)
       /\ wframe' = [kind |-> ev.type,
                     removed |-> Size(store) - Size(store'),
                     size |-> Size(store'),
                     target |-> IF ev.type = "MemoryPressure"
                                  THEN ev.target_size ELSE 0]
  /\ wpc' = "w_metrics"
  /\ UNCHANGED <<metrics, capacity, clock, now, metricsLock, CallerVars,
                 subscribed, rxLag, nextTick, opsLeft>>
  /\ PendingKeep
  /\ UNCHANGED ReplayVars
  /\ UNCHANGED <<ServiceVars, ContractVars>>

\* the metrics part of the sweep and of every event arm.  MemoryPressure
\* computes capacity - target_size in usize: with target_size > capacity the
\* subtraction overflows, which panics (the task ends, its guard and its
\* receiver are dropped by unwinding) or wraps, depending on the build.
WorkerMetrics ==
  /\ wpc = "w_metrics"
  /\ metricsLock = None
  /\ \/ /\ wframe.kind \in {"sweep", "PaymentDetected", "AnchorStatusChanged",
                            "AdminInvalidate"}
        /\ metrics' = [metrics EXCEPT
                         !.invalidations = (@ + wframe.removed) % U64,
                         !.current_size = wframe.size]
        /\ wpc' = "w_select"
     \/ /\ wframe.kind = "TtlSweep"
        /\ metrics' = [metrics EXCEPT !.current_size = wframe.size]
        /\ wpc' = "w_select"
     \/ /\ wframe.kind = "MemoryPressure"
        /\ metrics' = [metrics EXCEPT
                         !.evictions =
                           (@ + ((capacity - wframe.target) % U64)) % U64,
                         !.current_size = wframe.size]
        /\ wpc' = "w_select"
     \/ /\ wframe.kind = "MemoryPressure"
        /\ wframe.target > capacity
        /\ metrics' = metrics
        /\ wpc' = "w_dead"
  /\ wframe' = NoWFrame
  /\ IF wpc' = "w_dead"
       THEN subscribed' = FALSE /\ rxQueue' = <<>> /\ rxLag' = 0
       ELSE UNCHANGED BusVars
  /\ UNCHANGED <<store, capacity, clock, now, metricsLock, CallerVars,
                 nextTick, opsLeft>>
  /\ PendingKeep
  /\ UNCHANGED ReplayVars
  /\ UNCHANGED <<ServiceVars, ContractVars>>

\* time passes
Tick ==
  /\ now < MaxTime
  /\ now' = now + 1
  /\ UNCHANGED <<store, metrics, capacity, clock, metricsLock, CallerVars,
                 WorkerVars, opsLeft>>
  /\ PendingKeep
  /\ UNCHANGED ReplayVars
  /\ UNCHANGED <<ServiceVars, ContractVars>>

\* ------------------------------------------------------------------ Next

CallerStep(p) ==
  \/ SetStore(p)
  \/ SetMetrics(p)
  \/ EvictStore(p)
  \/ GetMetrics(p)
  \/ InvalidateMetrics(p)
  \/ MetricsRead(p)

CallerCall(p) ==
  \/ \E k \in Keys, v \in Values, ttl \in TTLs : SetBegin(p, k, v, ttl)
  \/ \E k \in Keys : GetStore(p, k)
  \/ \E k \in Keys : InvalidateStore(p, k)
  \/ \E pat \in Patterns : InvalidatePatternStore(p, pat)
  \/ FlushStore(p)
  \/ MetricsBegin(p)

WorkerStep ==
  \/ WorkerStart
  \/ WorkerTickSweep
  \/ WorkerRecvLagged
  \/ WorkerRecvEvent
  \/ WorkerMetrics

Next ==
  \/ \E p \in Callers : CallerCall(p)
  \/ \E p \in Callers : CallerStep(p)
  \/ \E ev \in Events : PublishEvent(ev)
  \/ WorkerStep
  \/ Tick

Spec == Init /\ [][Next]_vars

\* The same cache used by two caller tasks at once.
ConcInit ==
  /\ store = EmptyStore
  /\ metrics = DefaultMetrics
  /\ capacity \in Capacities
  /\ clock = 0
  /\ now = 0
  /\ metricsLock = None
  /\ pc = [p \in Callers |-> "idle"]
  /\ frame = [p \in Callers |-> NoFrame]
  /\ wpc = "w_start"
  /\ wframe = NoWFrame
  /\ subscribed = FALSE
  /\ rxQueue = <<>>
  /\ rxLag = 0
  /\ nextTick = 0
  /\ opsLeft = MaxOps - 1
  /\ pending = {}
  /\ ReplayInit
  /\ NoService
  /\ NoContract

ConcSpec == ConcInit /\ [][Next]_vars

\* The runtime polls every ready task: a started call and the background
\* task take their next step when they can.  Time is not forced on: a ttl
\* and the sweep interval may be arbitrarily long compared with these steps.
FairSpec ==
  /\ Init
  /\ [][Next]_vars
  /\ \A p \in Callers : WF_vars(CallerStep(p))
  /\ WF_vars(WorkerStep)

\* ... and time passes.
TimedFairSpec ==
  /\ Init
  /\ [][Next]_vars
  /\ \A p \in Callers : WF_vars(CallerStep(p))
  /\ WF_vars(WorkerStep)
  /\ WF_vars(Tick)

\* -------------------------------------------------------------- shutdown

\* the last reference to the CacheManager is dropped; no call borrows it
DropManager ==
  /\ ~dropped
  /\ \A p \in DOMAIN pc : pc[p] = "idle"
  /\ dropped' = TRUE
  /\ UNCHANGED <<rules, spc, svcQueue, svcLag, busOpen, handled, requested,
                 lagLog>>
  /\ UNCHANGED <<CacheVars, ReplayVars, ContractVars>>

\* the spawned background task owns clones of store, metrics and event_tx:
\* it goes on after the manager is gone, and no call or publish is made any
\* more
ShutdownNext ==
  \/ ~dropped /\ Next
  \/ DropManager
  \/ dropped /\ WorkerStep
  \/ dropped /\ Tick

ShutdownSpec == Init /\ [][ShutdownNext]_vars

\* ------------------------------------------------ invalidation service

\* event_tx.send(event) as the service's receiver sees it: with the receiver
\* gone the event is not retained; with a full buffer the oldest retained
\* event is overwritten and the receiver lags by one more
ServicePublish(ev) ==
  /\ busOpen
  /\ opsLeft > 0
  /\ opsLeft' = opsLeft - 1
  /\ IF spc = "s_exit"
       THEN UNCHANGED <<svcQueue, svcLag>>
       ELSE IF Len(svcQueue) >= BusCapacity
              THEN /\ svcQueue' = Append(Tail(svcQueue), ev)
                   /\ svcLag' = svcLag + 1
              ELSE /\ svcQueue' = Append(svcQueue, ev)
                   /\ svcLag' = svcLag
  /\ UNCHANGED <<dropped, rules, spc, busOpen, handled, requested, lagLog>>
  /\ UNCHANGED <<store, metrics, capacity, clock, now, metricsLock, CallerVars,
                 WorkerVars, pending>>
  /\ UNCHANGED <<ReplayVars, ContractVars>>

\* every Sender of the bus is dropped
CloseBus ==
  /\ busOpen
  /\ busOpen' = FALSE
  /\ UNCHANGED <<dropped, rules, spc, svcQueue, svcLag, handled, requested,
                 lagLog>>
  /\ UNCHANGED <<CacheVars, ReplayVars, ContractVars>>

\* one turn of the service's loop, match rx.recv().await:
\*   Ok(event): on_invalidate(rule.strategy) for each rule whose trigger is
\*     the event's, in the order of the table;
\*   Err(Lagged(n)): the count is logged and the loop goes on;
\*   Err(Closed): break.
ServiceRecv ==
  /\ spc = "s_recv"
  /\ \/ /\ svcLag = 0
        /\ svcQueue # <<>>
        /\ handled' = Head(svcQueue)
        /\ requested' = Triggered(rules, Head(svcQueue))
        /\ svcQueue' = Tail(svcQueue)
        /\ UNCHANGED <<spc, svcLag, lagLog>>
     \/ /\ svcLag > 0
        /\ lagLog' = Append(lagLog, svcLag)
        /\ svcLag' = 0
        /\ UNCHANGED <<spc, svcQueue, handled, requested>>
     \/ /\ svcLag = 0
        /\ svcQueue = <<>>
        /\ ~busOpen
        /\ spc' = "s_exit"
        /\ UNCHANGED <<svcQueue, svcLag, handled, requested, lagLog>>
  /\ UNCHANGED <<dropped, rules, busOpen>>
  /\ UNCHANGED <<CacheVars, ReplayVars, ContractVars>>

\* a service of any of the rule tables, spawned on a new receiver
ServiceInit ==
  /\ CacheInit
  /\ ReplayInit
  /\ NoContract
  /\ dropped = FALSE
  /\ rules \in RuleTables
  /\ spc = "s_recv"
  /\ svcQueue = <<>>
  /\ svcLag = 0
  /\ busOpen = TRUE
  /\ handled = NoEvent
  /\ requested = <<>>
  /\ lagLog = <<>>

ServiceNext ==
  \/ \E ev \in Events : ServicePublish(ev)
  \/ CloseBus
  \/ ServiceRecv

ServiceSpec == ServiceInit /\ [][ServiceNext]_vars

\* ------------------------------------------------- replay: event filter

\* event.matches_filter(&filter)
MatchEvent(e, f) ==
  /\ matched' = [called |-> TRUE, event |-> e, filter |-> f,
                 result |-> MatchesFilter(e, f)]
  /\ UNCHANGED <<log, appended, queried, builder, applied, session,
                 checkpoints, rnow>>
  /\ UNCHANGED PersistVars
  /\ UNCHANGED CacheVars
  /\ UNCHANGED <<ServiceVars, ContractVars>>

FilterNext == \E e \in ContractEvents, f \in EventFilters : MatchEvent(e, f)

FilterSpec == Init /\ [][FilterNext]_vars

\* ---------------------------------------------------- snapshot contract

\* variant: LatestEpoch is written by every submission
SubmitSnapshotAsLatest(hash, epoch, timestamp) ==
  /\ Len(submitted) < MaxSubmits
  /\ snapshots' = Insert(snapshots, epoch, Snapshot(hash, epoch, timestamp))
  /\ latest_epoch' = Some(epoch)
  /\ submitted' = Append(submitted, [hash |-> hash, epoch |-> epoch])
  /\ UNCHANGED <<CacheVars, ReplayVars, ServiceVars>>

\* submit_snapshot(hash, epoch) at ledger time timestamp
SubmitSnapshot(hash, epoch, timestamp) ==
  /\ Len(submitted) < MaxSubmits
  /\ snapshots' = Insert(snapshots, epoch, Snapshot(hash, epoch, timestamp))
  /\ latest_epoch' = IF ~latest_epoch.some \/ epoch > latest_epoch.val
                       THEN Some(epoch)
                       ELSE latest_epoch
  /\ submitted' = Append(submitted, [hash |-> hash, epoch |-> epoch])
  /\ UNCHANGED <<CacheVars, ReplayVars, ServiceVars>>

ContractNext ==
  \E hash \in Hashes, epoch \in Epochs, timestamp \in Timestamps :
    SubmitSnapshot(hash, epoch, timestamp)

ContractSpec == Init /\ [][ContractNext]_vars

\* ------------------------------------------------ replay: state builder

\* builder.apply_event(&event).await on builder n
BuilderApply(n, e) ==
  /\ builder' = [builder EXCEPT ![n] = ApplyEvent(builder[n], e)]
  /\ applied' = [called |-> TRUE, builder |-> n, event |-> e,
                 result |-> ApplyResult(builder[n], e)]
  /\ UNCHANGED <<matched, log, appended, queried, session, checkpoints, rnow>>
  /\ UNCHANGED PersistVars
  /\ UNCHANGED CacheVars
  /\ UNCHANGED <<ServiceVars, ContractVars>>

\* events with pairwise distinct ids and dedup keys
BuilderEvents == {E1, E2, E3, E4, E5}

BuilderNext == \E n \in Builders, e \in BuilderEvents : BuilderApply(n, e)

BuilderSpec == Init /\ [][BuilderNext]_vars

\* ------------------------------------------ replay: state persistence

\* builder.persist_state().await on builder n
PersistState(n) ==
  /\ persisted' = Persisted(persisted, builder[n].state)
  /\ UNCHANGED <<matched, log, appended, queried, builder, applied, session,
                 checkpoints, rnow, loaded>>
  /\ UNCHANGED CacheVars
  /\ UNCHANGED <<ServiceVars, ContractVars>>

\* UPDATE replay_state SET state_hash = 'corrupted' WHERE ledger = l: the
\* stored hash altered from outside
CorruptHash(l) ==
  /\ l \in DOMAIN persisted
  /\ persisted[l].state_hash # CorruptedHash
  /\ persisted' = [persisted EXCEPT ![l].state_hash = CorruptedHash]
  /\ UNCHANGED <<matched, log, appended, queried, builder, applied, session,
                 checkpoints, rnow, loaded>>
  /\ UNCHANGED CacheVars
  /\ UNCHANGED <<ServiceVars, ContractVars>>

\* builder.load_state(l).await on builder n
LoadState(n, l) ==
  /\ builder' = [builder EXCEPT ![n] = LoadedBuilder(builder[n], persisted, l)]
  /\ loaded' = [called |-> TRUE, op |-> "load", builder |-> n, ledger |-> l,
                result |-> LoadResult(persisted, l)]
  /\ UNCHANGED <<matched, log, appended, queried, applied, session,
                 checkpoints, rnow, persisted>>
  /\ UNCHANGED CacheVars
  /\ UNCHANGED <<ServiceVars, ContractVars>>

\* builder.verify_state(l).await on builder n
VerifyState(n, l) ==
  /\ loaded' = [called |-> TRUE, op |-> "verify", builder |-> n, ledger |-> l,
                result |-> IF Verified(builder[n], persisted, l)
                             THEN "true" ELSE "false"]
  /\ UNCHANGED <<matched, log, appended, queried, builder, applied, session,
                 checkpoints, rnow, persisted>>
  /\ UNCHANGED CacheVars
  /\ UNCHANGED <<ServiceVars, ContractVars>>

\* builder b1 builds and persists states, builder b2 is the new builder that
\* loads and verifies them
PersistNext ==
  \/ \E e \in {E1, E2} : BuilderApply("b1", e)
  \/ PersistState("b1")
  \/ \E l \in PersistLedgers : CorruptHash(l)
  \/ \E l \in PersistLedgers : LoadState("b2", l)
  \/ \E l \in PersistLedgers : VerifyState("b2", l)

PersistSpec == Init /\ [][PersistNext]_vars

\* ------------------------------------------------ replay: event storage

\* storage.store_event(&event).await: Ok(()), also for a duplicate
StoreEvent(e) ==
  /\ log' = Stored(log, e)
  /\ appended' = appended \cup {e}
  /\ UNCHANGED <<matched, queried, builder, applied, session, checkpoints, rnow>>
  /\ UNCHANGED PersistVars
  /\ UNCHANGED CacheVars
  /\ UNCHANGED <<ServiceVars, ContractVars>>

\* storage.get_events_in_range(low, high, &filter, limit).await
GetEventsInRange(low, high, f, limit) ==
  /\ queried' = [called |-> TRUE, low |-> low, high |-> high, filter |-> f,
                 limit |-> limit, result |-> GetRange(log, low, high, f, limit)]
  /\ UNCHANGED <<matched, log, appended, builder, applied, session,
                 checkpoints, rnow>>
  /\ UNCHANGED PersistVars
  /\ UNCHANGED CacheVars
  /\ UNCHANGED <<ServiceVars, ContractVars>>

StoreNext ==
  \/ \E e \in StoreEvents : StoreEvent(e)
  \/ \E low \in Ledgers, high \in Ledgers, f \in StoreFilters, limit \in Limits :
       GetEventsInRange(low, high, f, limit)

StoreSpec == Init /\ [][StoreNext]_vars

\* ------------------------------------------- replay: checkpoint manager

\* manager.save(&checkpoint).await, the checkpoint built by the caller
SaveCheckpoint(cp) ==
  /\ checkpoints' = Saved(checkpoints, cp)
  /\ UNCHANGED <<matched, log, appended, queried, builder, applied, session,
                 rnow>>
  /\ UNCHANGED PersistVars
  /\ UNCHANGED CacheVars
  /\ UNCHANGED <<ServiceVars, ContractVars>>

\* manager.cleanup_old(days).await
CleanupOld(days) ==
  /\ checkpoints' = CleanedUp(checkpoints, rnow, days)
  /\ UNCHANGED <<matched, log, appended, queried, builder, applied, session,
                 rnow>>
  /\ UNCHANGED PersistVars
  /\ UNCHANGED CacheVars
  /\ UNCHANGED <<ServiceVars, ContractVars>>

\* time passes
ReplayTick ==
  /\ rnow < MaxRNow
  /\ rnow' = rnow + 1
  /\ UNCHANGED <<matched, log, appended, queried, builder, applied, session,
                 checkpoints>>
  /\ UNCHANGED PersistVars
  /\ UNCHANGED CacheVars
  /\ UNCHANGED <<ServiceVars, ContractVars>>

CheckpointNext ==
  \/ \E id \in CheckpointIds, sid \in Sessions, l \in Ledgers, t \in 0..rnow :
       SaveCheckpoint(Checkpoint(id, sid, l, 0, 0, t))
  \/ \E days \in Days : CleanupOld(days)
  \/ ReplayTick

CheckpointSpec == Init /\ [][CheckpointNext]_vars

\* ------------------------------------------------ replay: replay engine

\* start: the effective start ledger resolved, the session InProgress
StartReplay ==
  /\ session.status = "Pending"
  /\ LET cfg == session.config
         cp == Latest(checkpoints, session.session_id)
         resuming == cfg.mode = "Resume" /\ cp.some
     IN  session' =
           [session EXCEPT
              !.status = "InProgress",
              !.cursor = EffectiveStart(cfg, cp),
              !.events_processed = IF resuming THEN cp.val.events_processed ELSE 0,
              !.events_failed = IF resuming THEN cp.val.events_failed ELSE 0]
  /\ UNCHANGED <<matched, log, appended, queried, builder, applied,
                 checkpoints, rnow>>
  /\ UNCHANGED PersistVars
  /\ UNCHANGED CacheVars
  /\ UNCHANGED <<ServiceVars, ContractVars>>

\* one turn of the loop.  A batch with events: each is applied and counted,
\* the cursor moves to last.ledger_sequence + 1 and a checkpoint is saved at
\* the batch boundary; a fatal handler error ends the session instead, Failed
\* with ProcessingError.  An empty batch: no event is left up to range.end,
\* the session is Completed, or Failed with StateCorruption when mode Verify
\* finds another hash than the expected one.
RunBatch ==
  /\ session.status = "InProgress"
  /\ LET cfg == session.config
         q == Batch(log, cfg, session.cursor)
         r == ProcessBatch(cfg,
                           [builder |-> builder["b1"],
                            count |-> [processed |-> session.events_processed,
                                       failed |-> session.events_failed],
                            fatal |-> FALSE], q)
         last == q[Len(q)].ledger_sequence
     IN  IF q = <<>>
           THEN /\ session' =
                     IF /\ cfg.mode = "Verify"
                        /\ ComputeHash(builder["b1"].state) # cfg.expected
                       THEN [session EXCEPT !.status = "Failed",
                                            !.error = "StateCorruption"]
                       ELSE [session EXCEPT !.status = "Completed"]
                /\ UNCHANGED <<builder, checkpoints>>
           ELSE IF r.fatal
           THEN /\ builder' = [builder EXCEPT !["b1"] = r.builder]
                /\ session' =
                     [session EXCEPT
                        !.status = "Failed",
                        !.error = "ProcessingError",
                        !.events_processed = r.count.processed,
                        !.events_failed = r.count.failed]
                /\ UNCHANGED checkpoints
           ELSE /\ builder' = [builder EXCEPT !["b1"] = r.builder]
                /\ session' =
                     [session EXCEPT
                        !.cursor = last + 1,
                        !.events_processed = r.count.processed,
                        !.events_failed = r.count.failed,
                        !.last_ledger = Some(last)]
                /\ \E id \in CheckpointIds :
                     /\ \A c \in checkpoints : c.id # id
                     /\ checkpoints' =
                          Saved(checkpoints,
                                Checkpoint(id, session.session_id, last,
                                           r.count.processed, r.count.failed,
                                           rnow))
  /\ UNCHANGED <<matched, log, appended, queried, applied, rnow>>
  /\ UNCHANGED PersistVars
  /\ UNCHANGED CacheVars
  /\ UNCHANGED <<ServiceVars, ContractVars>>

\* pause, between two batches
PauseReplay ==
  /\ session.status = "InProgress"
  /\ session' = [session EXCEPT !.status = "Paused"]
  /\ UNCHANGED <<matched, log, appended, queried, builder, applied,
                 checkpoints, rnow>>
  /\ UNCHANGED PersistVars
  /\ UNCHANGED CacheVars
  /\ UNCHANGED <<ServiceVars, ContractVars>>

\* resume: cursor and counters from the session's latest checkpoint (from
\* range.start and zero when it has none), the state builder kept
ResumeReplay ==
  /\ CanResume(session)
  /\ LET cfg == session.config
         cp == Latest(checkpoints, session.session_id)
     IN  session' =
           [session EXCEPT
              !.status = "InProgress",
              !.cursor = ResumeCursor(cfg, cp),
              !.events_processed = IF cp.some THEN cp.val.events_processed ELSE 0,
              !.events_failed = IF cp.some THEN cp.val.events_failed ELSE 0,
              !.resumed = TRUE]
  /\ UNCHANGED <<matched, log, appended, queried, builder, applied,
                 checkpoints, rnow>>
  /\ UNCHANGED PersistVars
  /\ UNCHANGED CacheVars
  /\ UNCHANGED <<ServiceVars, ContractVars>>

\* a range read that keeps failing after its retries: Failed, last_ledger kept
EngineFail ==
  /\ session.status = "InProgress"
  /\ session' = [session EXCEPT !.status = "Failed", !.error = "StorageError"]
  /\ UNCHANGED <<matched, log, appended, queried, builder, applied,
                 checkpoints, rnow>>
  /\ UNCHANGED PersistVars
  /\ UNCHANGED CacheVars
  /\ UNCHANGED <<ServiceVars, ContractVars>>

ReplayNext ==
  \/ StartReplay
  \/ RunBatch
  \/ PauseReplay
  \/ ResumeReplay
  \/ EngineFail
  \/ \E days \in Days : CleanupOld(days)
  \/ ReplayTick

ReplaySpec == EngineInit /\ [][ReplayNext]_vars

\* ---------------------------------------------------------------- claims

InCall(p) == p \in DOMAIN pc /\ pc[p] # "idle"

\* p occurs in k: some slice k[i+1..j] equals p
HasSubstring(k, p) == \E i \in 0..Len(k), j \in 0..Len(k) : SubSeq(k, i + 1, j) = p

\* s restricted to the keys in ks, entries untouched
Restrict(s, ks) == [x \in ks |-> s[x]]

\* C1: every call on the CacheManager eventually returns to its caller,
\* including a set that inserts a new key into a full cache: whenever some
\* call is in progress, some call can take its next step (no state in which
\* every started call waits for ever).
C1_EveryCallReturns ==
  (\E p \in Callers : InCall(p)) => (\E p \in Callers : ENABLED CallerStep(p))

\* C2: get(k) returns Some(v) exactly when the store holds an entry for k
\* with now <= expires_at, v being the stored value, which is the value of
\* the last set(k, v, ttl) that took effect (only set's insertion creates an
\* entry or changes its value); otherwise get returns None and an expired
\* entry is removed by that get; no other entry is touched.
C2_GetReturnsLiveValue ==
  [][/\ \A p \in Callers, k \in Keys :
          GetStore(p, k) =>
            LET live == k \in DOMAIN store /\ now <= store[k].expires_at IN
              /\ frame'[p].hit = live
              /\ live => /\ frame'[p].value = store[k].value
                         /\ k \in DOMAIN store'
                         /\ store'[k].value = store[k].value
                         /\ store'[k].expires_at = store[k].expires_at
              /\ ~live => k \notin DOMAIN store'
              /\ \A j \in Keys \ {k} :
                   /\ (j \in DOMAIN store') = (j \in DOMAIN store)
                   /\ j \in DOMAIN store => store'[j] = store[j]
     /\ \A p \in Callers :
          SetStore(p) =>
            /\ frame[p].key \in DOMAIN store'
            /\ store'[frame[p].key].value = frame[p].value
            /\ store'[frame[p].key].expires_at = frame[p].expires_at
     /\ \A k \in DOMAIN store' :
          (k \notin DOMAIN store \/ store'[k].value # store[k].value)
            => \E p \in Callers : SetStore(p) /\ frame[p].key = k
    ]_vars

\* C2 witness: a get hit on an entry holding the second value
C2_Witness ==
  \E p \in Callers : At(p, "get_metrics") /\ frame[p].hit /\ frame[p].value = "v2"

\* C3: when a set leaves the store with more than `capacity` entries, the
\* eviction round that removed the least recently used entry is counted and
\* set returns: once evict_lru has removed its entry, the call eventually
\* returns with evictions >= 1.
C3_OverflowingSetEvictsAndReturns ==
  \A p \in Callers :
    At(p, "evict_metrics") ~> (At(p, "idle") /\ metrics.evictions >= 1)

\* the history so far is N = clock set calls and nothing else: no get, no
\* invalidation, no published event, no expiry
OnlySets ==
  /\ opsLeft + clock = MaxOps
  /\ now = 0
  /\ metrics.hits = 0 /\ metrics.misses = 0 /\ metrics.invalidations = 0

\* C4: with capacity C, after N > C sequential set calls on N distinct keys
\* and nothing else, evictions = N - C and the store holds the C most
\* recently inserted keys.  Stated from the moment the N-th insertion has
\* brought the store to N = C + 1 entries: the call then returns with that
\* result (unless something other than a set intervenes).
C4_SetsEvictDownToCapacity ==
  \A p \in Callers :
    (OnlySets /\ At(p, "set_metrics") /\ frame[p].size = clock
       /\ clock > capacity)
      ~> \/ ~OnlySets
         \/ /\ At(p, "idle")
            /\ metrics.evictions = clock - capacity
            /\ Size(store) = capacity
            /\ \A k \in DOMAIN store : store[k].last_used >= clock - capacity

\* some set waits inside evict_lru for the metrics lock its own caller holds
SetStuck == \E p \in Callers : At(p, "evict_metrics")

\* C5: a key that was present, with no call in progress, when a matching
\* PaymentDetected / AnchorStatusChanged event was published is eventually
\* removed by the background task (leaving aside a receiver that lagged, a
\* background task that panicked and a set that never returns).
C5_PublishedEventInvalidates ==
  \A k \in Keys :
    (k \in pending)
      ~> (k \notin pending \/ wpc \in {"w_tick_only", "w_dead"} \/ SetStuck)

\* an entry for k is in the store and its expires_at has passed
Stale(k) == k \in DOMAIN store /\ now > store[k].expires_at

\* the periodic sweep is still to fire within the modelled time
SweepDue == wpc = "w_start" \/ (wpc # "w_dead" /\ nextTick <= MaxTime)

\* C6: every entry whose expires_at has passed is eventually removed (by the
\* periodic TTL sweep at the latest), whatever bus events were delivered.
C6_StaleEntriesAreSwept ==
  \A k \in Keys : (Stale(k) /\ SweepDue) ~> ~Stale(k)

\* C7: invalidate_pattern(p) removes every entry whose key contains p as a
\* substring and no other entry, and leaves the remaining entries unchanged.
C7_InvalidatePatternRemovesMatches ==
  [][\A p \in Callers, pat \in Patterns :
       InvalidatePatternStore(p, pat) =>
         /\ DOMAIN store' = {k \in DOMAIN store : ~HasSubstring(k, pat)}
         /\ store' = Restrict(store, DOMAIN store')
    ]_vars

\* C7 witness: a pattern invalidation removed a matching entry and kept a
\* non-matching one
C7_Witness ==
  \E p \in Callers :
    /\ At(p, "invp_metrics")
    /\ frame[p].removed = 1
    /\ frame[p].size = 1
    /\ Size(store) = 1

\* C8: invalidate(k) removes k and no other entry; afterwards k is absent,
\* and get(k) returns None, until the insertion of a later set(k, ...) takes
\* effect: nothing but set's insertion makes a key present, whatever the
\* other callers and the background task do.
C8_InvalidatedUntilSet ==
  [][/\ \A p \in Callers, k \in Keys :
          InvalidateStore(p, k) =>
            /\ k \notin DOMAIN store'
            /\ DOMAIN store' = DOMAIN store \ {k}
            /\ store' = Restrict(store, DOMAIN store')
     /\ \A k \in Keys :
          (k \notin DOMAIN store /\ k \in DOMAIN store')
            => \E p \in Callers : SetStore(p) /\ frame[p].key = k
     /\ \A p \in Callers, k \in Keys :
          (GetStore(p, k) /\ k \notin DOMAIN store) => ~frame'[p].hit
    ]_vars

\* C8 witness: invalidate removed the only entry of the store, after the
\* set that inserted it had returned
C8_Witness ==
  \E p \in Callers :
    /\ At(p, "inv_metrics")
    /\ frame[p].size = 0
    /\ metrics.current_size = 1
    /\ clock = 1
    /\ \A q \in DOMAIN pc : q # p => pc[q] = "idle"

\* the substring the background task matches for an event, per the rule table
RulePattern(ev) ==
  CASE ev.type = "PaymentDetected" ->
         <<"c", "o", "r", "r", "i", "d", "o", "r", ":">> \o ev.corridor_id
    [] ev.type = "AnchorStatusChanged" ->
         <<"a", "n", "c", "h", "o", "r", ":">> \o ev.anchor_id
    [] ev.type = "AdminInvalidate" -> ev.pattern

\* C9: processing PaymentDetected{id}, AnchorStatusChanged{id} or
\* AdminInvalidate{pattern}, the background task removes exactly the entries
\* whose key contains "corridor:<id>", "anchor:<id>" or pattern, and leaves
\* every other entry unchanged.
C9_EventRemovesExactlyMatches ==
  [][(WorkerRecvEvent
        /\ Head(rxQueue).type \in {"PaymentDetected", "AnchorStatusChanged",
                                   "AdminInvalidate"})
       => /\ DOMAIN store' =
               {k \in DOMAIN store : ~HasSubstring(k, RulePattern(Head(rxQueue)))}
          /\ store' = Restrict(store, DOMAIN store')
    ]_vars

\* C9 witness: PaymentDetected removed the corridor entry and kept the other
C9_Witness ==
  /\ wpc = "w_metrics"
  /\ wframe.kind = "PaymentDetected"
  /\ wframe.removed = 1
  /\ wframe.size = 1
  /\ DOMAIN store = {KeyAnchorA}

Min(a, b) == IF a <= b THEN a ELSE b

\* C10: processing MemoryPressure{target_size}, the background task leaves
\* min(previous size, target_size) entries, unchanged, and every removed
\* entry had a smaller last_used than every entry that remains.
C10_MemoryPressureEvictsLru ==
  [][(WorkerRecvEvent /\ Head(rxQueue).type = "MemoryPressure")
       => /\ Size(store') = Min(Size(store), Head(rxQueue).target_size)
          /\ DOMAIN store' \subseteq DOMAIN store
          /\ store' = Restrict(store, DOMAIN store')
          /\ \A r \in DOMAIN store \ DOMAIN store', k \in DOMAIN store' :
               store[r].last_used < store[k].last_used
    ]_vars

\* C10 witness: memory pressure removed one of two entries
C10_Witness ==
  /\ wpc = "w_metrics"
  /\ wframe.kind = "MemoryPressure"
  /\ wframe.removed = 1
  /\ wframe.size = 1
  /\ wframe.target = 1

\* C11: publish_event never blocks: whatever the locks, the subscriber and
\* the buffer, a publish can complete at once; it touches neither the store,
\* the metrics nor their locks nor any call in progress; with no subscriber
\* the event is discarded; with a full buffer the oldest retained event is
\* dropped and the receiver's lag count grows by one, and a receiver with a
\* lag count is handed the lag signal before any further event.
C11_PublishNeverBlocks ==
  [][/\ \A ev \in Events :
          /\ opsLeft > 0 => ENABLED PublishEvent(ev)
          /\ PublishEvent(ev) =>
                /\ UNCHANGED <<store, metrics, metricsLock, pc, frame, wpc,
                               wframe, clock>>
                /\ ~subscribed => UNCHANGED <<rxQueue, rxLag>>
                /\ (subscribed /\ Len(rxQueue) < BusCapacity) =>
                     (rxQueue' = Append(rxQueue, ev) /\ rxLag' = rxLag)
                /\ (subscribed /\ Len(rxQueue) >= BusCapacity) =>
                     /\ rxQueue' = Append(Tail(rxQueue), ev)
                     /\ rxLag' = rxLag + 1
     /\ rxLag > 0 => (~ENABLED WorkerRecvEvent
                       /\ (wpc = "w_select" => ENABLED WorkerRecvLagged))
    ]_vars

\* C11 witness: a publish into a full buffer made the receiver lag while a
\* call was in progress
C11_Witness ==
  /\ rxLag = 1
  /\ Len(rxQueue) = BusCapacity
  /\ \E p \in Callers : InCall(p)

\* C12 as stated: for ANY event e, after apply_event(e) a second
\* apply_event(e) leaves state and index as they are, returns skipped = true
\* and is counted in events_processed, never in events_failed.
C12_ApplyTwiceSkipsAnyEvent ==
  [][\A n \in Builders, e \in BuilderEvents :
       BuilderApply(n, e) =>
         /\ ApplyEvent(builder'[n], e) = builder'[n]
         /\ ApplyResult(builder'[n], e).skipped
         /\ Tally(NoCount, ApplyResult(builder'[n], e)) =
              [processed |-> 1, failed |-> 0]
    ]_vars

\* C12 amended: for any event e that apply_event accepts (first call
\* success = true), a second apply_event(e) leaves state and index as they
\* are, returns skipped = true and is counted in events_processed; a call on
\* an event whose id is in the index is such a skip and mutates nothing; an
\* event the handler rejects is rejected again, and changes nothing either.
C12_ApplyTwiceSkipsAccepted ==
  [][\A n \in Builders, e \in BuilderEvents :
       BuilderApply(n, e) =>
         /\ ApplyEvent(builder'[n], e) = builder'[n]
         /\ applied'.result.success =>
              /\ ApplyResult(builder'[n], e).skipped
              /\ Tally(NoCount, ApplyResult(builder'[n], e)) =
                   [processed |-> 1, failed |-> 0]
         /\ e.id \in builder[n].index =>
              /\ applied'.result.skipped
              /\ builder' = builder
         /\ ~applied'.result.success =>
              /\ builder' = builder
              /\ ApplyResult(builder'[n], e) = applied'.result
    ]_vars

\* C12 witness: the second call on E2 was skipped, the snapshot of its epoch
\* still there
C12_Witness ==
  /\ applied.called
  /\ applied.event = E2
  /\ applied.result.skipped
  /\ builder[applied.builder].state.snapshots[1].hash = "h2"

\* C13: two builders that accepted the same set of events, in whatever
\* order, have the same state hash.
C13_FoldOrderIndependent ==
  \A m, n \in Builders :
    builder[m].index = builder[n].index
      => ComputeHash(builder[m].state) = ComputeHash(builder[n].state)

\* the set of the values of a list
Members(v) == {v[i] : i \in DOMAIN v}

\* C17: matches_filter(event, filter) is true exactly when every dimension
\* of the filter (contract_ids, event_types, network) is missing or holds
\* the event's value (equals it, for network); the filter with every
\* dimension missing accepts every event, and a filter with a present but
\* empty list accepts none.
C17_MatchesFilterIsMembership ==
  matched.called =>
    LET e == matched.event
        f == matched.filter
    IN  /\ matched.result <=>
              /\ ~f.contract_ids.some \/ e.contract_id \in Members(f.contract_ids.val)
              /\ ~f.event_types.some \/ e.event_type \in Members(f.event_types.val)
              /\ ~f.network.some \/ e.network = f.network.val
        /\ f = DefaultFilter => matched.result
        /\ (f.contract_ids.some /\ f.contract_ids.val = <<>>) => ~matched.result
        /\ (f.event_types.some /\ f.event_types.val = <<>>) => ~matched.result

\* C17 witness: a filter whose only present dimension is an empty list of
\* contract ids was applied, and rejected the event
C17_Witness ==
  /\ matched.called
  /\ matched.filter = EventFilter(Some(<<>>), Absent(<<>>), Absent(""))
  /\ ~matched.result

\* the canonical deduplication key of an event
DedupKey(e) == <<e.ledger_sequence, e.transaction_hash, e.event_type>>

\* C15: store_event is idempotent on the dedup key (ledger_sequence,
\* transaction_hash, event_type): it returns success, and when the key of
\* the event is already in the log, also under another id, the log is left
\* as it is; after appends in any interleaving the log holds exactly one row
\* per distinct key appended.
C15_AppendIdempotentOnDedupKey ==
  [][\A e \in StoreEvents :
       StoreEvent(e) =>
         /\ e \in appended'
         /\ (\E i \in DOMAIN log : DedupKey(log[i]) = DedupKey(e)) => log' = log
         /\ Len(log') = Cardinality({DedupKey(x) : x \in appended'})
         /\ \A x \in appended' :
              \E i \in DOMAIN log' : DedupKey(log'[i]) = DedupKey(x)
    ]_vars

\* C15 witness: E1 and E6 (the same key under two ids) were both appended,
\* with two other events, and the log holds three rows, E1 the one kept
C15_Witness ==
  /\ {E1, E6} \subseteq appended
  /\ Cardinality(appended) = 4
  /\ Len(log) = 3
  /\ \E i \in DOMAIN log : log[i] = E1

C19_LatestOfSessionAndSaveInserts ==
  /\ [](\A sid \in Sessions :
         LET S == {c \in checkpoints : c.session_id = sid}
             l == Latest(checkpoints, sid)
         IN  /\ S = {} => ~l.some
             /\ S # {} =>
                  /\ l.some
                  /\ l.val \in S
                  /\ \A d \in S :
                       /\ d.created_at <= l.val.created_at
                       /\ d.created_at = l.val.created_at =>
                            /\ d.last_ledger <= l.val.last_ledger
                            /\ d.last_ledger = l.val.last_ledger =>
                                 d.id <= l.val.id)
  /\ [][checkpoints' \ checkpoints # {} =>
           /\ checkpoints \subseteq checkpoints'
           /\ Cardinality(checkpoints') = Cardinality(checkpoints) + 1
      ]_vars

\* C19 witness: session s1 has two checkpoints of the same created_at and
\* session s2 a later one; get_latest(s1) is the one of s1 with the greater
\* last_ledger
C19_Witness ==
  /\ checkpoints = {Checkpoint(3, "s1", 1, 0, 0, 1), Checkpoint(1, "s1", 2, 0, 0, 1),
                    Checkpoint(2, "s2", 3, 0, 0, 2)}
  /\ Latest(checkpoints, "s1") = Some(Checkpoint(1, "s1", 2, 0, 0, 1))

\* C14 as stated: a replay that was paused after some batch and resumed ends
\* Completed with the events_processed and the final state hash of one
\* uninterrupted Fresh replay of the same log and range, and with
\* events_failed = 0, wherever the pause fell.
C14_ResumedEqualsFreshNoneFailed ==
  (session.status = "Completed" /\ session.resumed) =>
    LET fresh == FreshReplay(log, session.config) IN
      /\ session.events_processed = fresh.count.processed
      /\ session.events_failed = 0
      /\ ComputeHash(builder["b1"].state) = ComputeHash(fresh.builder.state)

\* C14 amended: a replay that was paused after some batch and resumed ends
\* Completed with the events_processed, the events_failed and the final
\* state hash of one uninterrupted Fresh replay of the same log and range;
\* events_failed is 0 when the handlers reject no event of the range.
C14_ResumedEqualsFresh ==
  (session.status = "Completed" /\ session.resumed) =>
    LET fresh == FreshReplay(log, session.config)
        cfg == session.config
    IN
      /\ session.events_processed = fresh.count.processed
      /\ session.events_failed = fresh.count.failed
      /\ (\A i \in DOMAIN log :
            (cfg.start <= log[i].ledger_sequence /\ log[i].ledger_sequence <= cfg.end)
              => ~HandlerRejects(log[i]))
           => session.events_failed = 0
      /\ ComputeHash(builder["b1"].state) = ComputeHash(fresh.builder.state)

\* C14 witness: a replay of three events in batches of one, paused after a
\* batch and resumed from its checkpoint, is Completed with all three counted
C14_Witness ==
  /\ session.status = "Completed"
  /\ session.resumed
  /\ session.config.batch_size = 1
  /\ session.events_processed + session.events_failed = 3
  /\ Cardinality(checkpoints) = 3

Terminal(s) == s.status \in {"Completed", "Failed"}

C21_LoadRehydratesOrDetectsCorruption ==
  [][/\ PersistState("b1") =>
          LET st == builder["b1"].state IN
            /\ st.ledger \in DOMAIN persisted'
            /\ persisted'[st.ledger].state = st
            /\ ComputeHash(persisted'[st.ledger].state)
                 = persisted'[st.ledger].state_hash
     /\ LoadState(loaded'.builder, loaded'.ledger) =>
          LET n == loaded'.builder
              l == loaded'.ledger
          IN  l \in DOMAIN persisted =>
                IF persisted[l].state_hash = ComputeHash(persisted[l].state)
                  THEN /\ loaded'.result = "true"
                       /\ builder'[n].state = persisted[l].state
                       /\ builder'[n].state.ledger = l
                       /\ Verified(builder'[n], persisted', l)
                  ELSE /\ loaded'.result = "StateCorruption"
                       /\ builder' = builder
     /\ VerifyState(loaded'.builder, loaded'.ledger) =>
          (loaded'.result = "true") <=>
            /\ loaded'.ledger \in DOMAIN persisted
            /\ ComputeHash(builder[loaded'.builder].state)
                 = persisted[loaded'.ledger].state_hash
    ]_vars

\* C21 witness: the new builder loaded the state persisted at ledger 1; then
\* the hash stored at ledger 2 was altered and load(2) failed with
\* StateCorruption, the builder still holding the state of ledger 1
C21_Witness ==
  /\ loaded.called
  /\ loaded.op = "load"
  /\ loaded.ledger = 2
  /\ loaded.result = "StateCorruption"
  /\ persisted[2].state_hash = CorruptedHash
  /\ 1 \in DOMAIN persisted
  /\ builder["b2"].state = persisted[1].state
  /\ builder["b2"].state.ledger = 1

\* the events of a batch that are counted in events_failed: the handler
\* rejects them and their id is not in the idempotency index
Rejected(q, b) ==
  {i \in DOMAIN q : q[i].id \notin b.index /\ HandlerRejects(q[i])}

\* C22: a handler error ends the session (Failed) only under the Strict
\* policy; under the Lenient policy each rejected event of a batch is counted
\* in events_failed, every other event, also one whose id is already in the
\* idempotency index, in events_processed, and the session goes on, to
\* Completed when a batch comes back empty.
C22_HandlerErrorFatalOnlyIfStrict ==
  [][RunBatch =>
       LET cfg == session.config
           q == Batch(log, cfg, session.cursor)
           bad == Rejected(q, builder["b1"])
       IN  /\ session'.error = "ProcessingError" =>
                /\ cfg.policy = "Strict"
                /\ bad # {}
           /\ (cfg.policy = "Strict" /\ bad # {}) =>
                /\ session'.status = "Failed"
                /\ session'.error = "ProcessingError"
           /\ cfg.policy = "Lenient" =>
                /\ session'.events_failed =
                     session.events_failed + Cardinality(bad)
                /\ session'.events_processed =
                     session.events_processed + Len(q) - Cardinality(bad)
                /\ q # <<>> => session'.status = "InProgress"
                /\ (q = <<>> /\ cfg.mode # "Verify") =>
                     session'.status = "Completed"
    ]_vars

\* C22 witness: a Lenient replay is Completed with the rejected event counted
\* failed; it was resumed after a cleanup had removed its checkpoints, so the
\* events of the first pass were found in the idempotency index
C22_Witness ==
  /\ session.config.policy = "Lenient"
  /\ session.status = "Completed"
  /\ session.resumed
  /\ session.events_failed = 1
  /\ session.events_processed = 2
  /\ Cardinality(checkpoints) = 3
  /\ \A c \in checkpoints : c.created_at = 1

\* C23: the step that completes a get adds exactly one to hits when it
\* returns Some and exactly one to misses when it returns None, and leaves the
\* other counter alone; no other step changes hits or misses, so that
\* hits + misses counts the completed gets.
C23_GetCountsHitOrMiss ==
  [][/\ \A p \in Callers :
          GetMetrics(p) =>
            IF frame[p].hit
              THEN /\ metrics'.hits = metrics.hits + 1
                   /\ metrics'.misses = metrics.misses
              ELSE /\ metrics'.misses = metrics.misses + 1
                   /\ metrics'.hits = metrics.hits
     /\ (metrics'.hits # metrics.hits \/ metrics'.misses # metrics.misses) =>
          /\ \E p \in Callers : GetMetrics(p)
          /\ metrics'.hits + metrics'.misses = metrics.hits + metrics.misses + 1
    ]_vars

\* C23 witness: one get returned Some and one returned None, other
\* operations have run, and no call is in progress
C23_Witness ==
  /\ metrics.hits = 1
  /\ metrics.misses = 1
  /\ opsLeft = 0
  /\ \A p \in DOMAIN pc : pc[p] = "idle"

SetInProgress(p) ==
  p \in DOMAIN pc /\ pc[p] \in {"set_store", "set_metrics", "evict_store",
                                "evict_metrics"}

\* C24: whenever no set call is in progress the store holds at most capacity
\* entries, whatever the interleaving of callers and background task.
C24_StoreWithinCapacity ==
  (\A p \in Callers : ~SetInProgress(p)) => Size(store) <= capacity

\* C24 witness: with a capacity of one, a second key was set while the first
\* was stored, the second key was invalidated before evict_lru looked at the
\* store, every call has returned and the store holds the first entry alone
C24_Witness ==
  /\ capacity = 1
  /\ clock = 2
  /\ opsLeft = 0
  /\ \A p \in DOMAIN pc : pc[p] = "idle"
  /\ Size(store) = 1
  /\ \A k \in DOMAIN store : store[k].last_used = 0
  /\ metrics.hits = 0
  /\ metrics.invalidations = 1

\* C25: no published event stops the background task: once started it stays
\* in its loop, subscribed to the bus, whatever events it has received,
\* MemoryPressure with target_size > capacity included.
C25_NoEventStopsWorker ==
  wpc # "w_start" => (wpc # "w_dead" /\ subscribed)

\* the steps of caller p that acquire the store lock
AcquiresStore(p) ==
  \/ SetStore(p)
  \/ EvictStore(p)
  \/ \E k \in Keys : GetStore(p, k) \/ InvalidateStore(p, k)
  \/ \E pat \in Patterns : InvalidatePatternStore(p, pat)
  \/ FlushStore(p)

\* C26: no step acquires the store lock while its task holds the metrics
\* lock; the locks are never nested in the order metrics -> store.
C26_StoreNotAcquiredUnderMetrics ==
  [][\A p \in DOMAIN pc : AcquiresStore(p) => metricsLock # p]_vars

\* no cache operation and no step of the background task is in progress
Quiescent ==
  /\ \A p \in DOMAIN pc : pc[p] = "idle"
  /\ wpc # "w_metrics"

\* C27: whenever no cache operation and no worker step is in progress,
\* metrics.current_size is the number of entries in the store.
C27_CurrentSizeReconciled ==
  Quiescent => metrics.current_size = Size(store)

\* C28: every TTL sweep, fired by the timer or by a TtlSweep event, removes
\* every expired entry, keeps every unexpired entry as it is, and adds the
\* number of entries it removed to invalidations.
C28_SweepRemovesExpiredAndCounts ==
  [][/\ (\/ WorkerTickSweep
         \/ (WorkerRecvEvent /\ wframe'.kind = "TtlSweep")) =>
          /\ \A k \in DOMAIN store' : ~IsExpired(store'[k], now)
          /\ \A k \in DOMAIN store :
               ~IsExpired(store[k], now) =>
                 (k \in DOMAIN store' /\ store'[k] = store[k])
     /\ (WorkerMetrics /\ wframe.kind \in {"sweep", "TtlSweep"}) =>
          metrics'.invalidations = metrics.invalidations + wframe.removed
    ]_vars

\* C29: the metrics part of each eviction round, the one run by set as well
\* as the worker's handling of MemoryPressure, adds exactly one to evictions
\* and leaves invalidations unchanged; no step decreases evictions.
C29_EvictionRoundCountsOne ==
  [][/\ ((\E p \in DOMAIN pc : SetMetrics(p) /\ pc[p] = "evict_metrics")
         \/ (WorkerMetrics /\ wframe.kind = "MemoryPressure")) =>
          /\ metrics'.evictions = metrics.evictions + 1
          /\ metrics'.invalidations = metrics.invalidations
     /\ metrics'.evictions >= metrics.evictions
    ]_vars

\* C30: each invalidate, invalidate_pattern and flush call adds to
\* invalidations exactly the number of entries its store part removed: the
\* number it carries to its metrics part is that number, and the metrics
\* part adds what it carries.
C30_InvalidationsCountRemoved ==
  [][\A p \in DOMAIN pc :
       /\ (\/ \E k \in Keys : InvalidateStore(p, k)
           \/ \E pat \in Patterns : InvalidatePatternStore(p, pat)
           \/ FlushStore(p)) =>
            frame'[p].removed = Size(store) - Size(store')
       /\ InvalidateMetrics(p) =>
            metrics'.invalidations = metrics.invalidations + frame[p].removed
    ]_vars

\* C33: the invalidation operations are idempotent on the store: the store
\* left by the store part of invalidate(k), invalidate_pattern(p), flush or
\* of the worker's handling of a bus event is left as it is when the same
\* store part is applied to it once more, with nothing in between.
C33_InvalidationIdempotentOnStore ==
  [][/\ \A p \in DOMAIN pc :
          /\ \A k \in Keys : InvalidateStore(p, k) => Remove(store', k) = store'
          /\ \A pat \in Patterns :
               InvalidatePatternStore(p, pat) =>
                 RetainNotContaining(store', pat) = store'
          /\ FlushStore(p) => store' = EmptyStore
     /\ WorkerRecvEvent => EventStore(store', Head(rxQueue), now) = store'
    ]_vars

\* C33 witness: the worker has handled MemoryPressure{1} on a store of two
\* entries and removed one of them
C33_Witness ==
  /\ wpc = "w_metrics"
  /\ wframe.kind = "MemoryPressure"
  /\ wframe.target = 1
  /\ wframe.removed = 1
  /\ Size(store) = 1

\* C36: an apply_event that succeeds leaves e.id in the idempotency index and
\* state.ledger at max(state.ledger, e.ledger_sequence); no call lowers
\* state.ledger or removes an id from the index; a call the handler rejects
\* returns an error and changes nothing; an event of unknown type is applied
\* with no change of the state but the ledger (and the index).
C36_ApplyEventIndexAndLedger ==
  [][\A n \in Builders, e \in BuilderEvents :
       BuilderApply(n, e) =>
         LET old == builder[n]
             new == builder'[n]
             r == applied'.result
         IN  /\ r.success =>
                  /\ e.id \in new.index
                  /\ new.state.ledger >= old.state.ledger
                  /\ new.state.ledger >= e.ledger_sequence
                  /\ new.state.ledger \in {old.state.ledger, e.ledger_sequence}
             /\ new.state.ledger >= old.state.ledger
             /\ old.index \subseteq new.index
             /\ HandlerRejects(e) /\ e.id \notin old.index =>
                  /\ r.error /\ ~r.success
                  /\ new = old
             /\ r.error => new = old
             /\ e.event_type # SnapshotSubmitted =>
                  /\ r.success
                  /\ new.state.snapshots = old.state.snapshots
    ]_vars

\* C36 witness: the event of unknown type E4 (ledger 3) was applied after E3
\* and E1: it is in the index, the ledger is 3, the snapshots are those of E3
\* and E1
C36_Witness ==
  /\ applied.called
  /\ applied.event = E4
  /\ applied.result.success /\ ~applied.result.skipped
  /\ builder[applied.builder].index = {"e1", "e3", "e4"}
  /\ builder[applied.builder].state.ledger = 3
  /\ DOMAIN builder[applied.builder].state.snapshots = {1, 2}

\* count_range(range, filter): the events of the log in the range that match
\* the filter
CountRange(l, cfg) == Len(GetRange(l, cfg.start, cfg.end, cfg.filter, Absent(0)))

\* C37: a Fresh replay that ran without interruption to Completed has passed
\* every log event of the range that matches the filter to apply_event
\* exactly once: events_processed + events_failed = count_range(range,
\* filter), whatever the batch size and however many events share a ledger.
C37_FreshReplayCountsRange ==
  (/\ session.status = "Completed"
   /\ session.config.mode = "Fresh"
   /\ ~session.resumed) =>
    session.events_processed + session.events_failed =
      CountRange(log, session.config)

\* C38: last_used follows the order of the store updates: an entry written
\* by the store part of a set, or touched by a get hit, has a last_used
\* greater than that of every other entry then in the store, so that the
\* entry with the smallest last_used, the one an eviction removes, is never
\* the one written last while an older entry is present.
C38_LastUsedFollowsStoreOrder ==
  [][\A p \in DOMAIN pc :
       /\ SetStore(p) =>
            \A k \in DOMAIN store' \ {frame[p].key} :
              store'[k].last_used < store'[frame[p].key].last_used
       /\ \A k \in Keys :
            (GetStore(p, k) /\ frame'[p].hit) =>
              \A j \in DOMAIN store' \ {k} :
                store'[j].last_used < store'[k].last_used
    ]_vars

\* the greatest epoch of the submissions made
MaxEpoch(q) ==
  CHOOSE e \in {q[i].epoch : i \in DOMAIN q} :
    \A i \in DOMAIN q : q[i].epoch <= e

\* the hash of the last submission made at epoch e, if any
LastAt(q, e) ==
  LET at == {i \in DOMAIN q : q[i].epoch = e} IN
    IF at = {}
      THEN Absent("")
      ELSE Some(q[CHOOSE i \in at : \A j \in at : j <= i].hash)

\* C39: after any sequence of submit_snapshot calls the latest epoch is the
\* greatest epoch submitted and get_latest_snapshot returns the snapshot
\* stored at that epoch; it is None exactly when nothing was submitted; a
\* submission at an epoch lower than the latest leaves the latest snapshot
\* as it is.
C39_LatestIsMaxEpoch ==
  /\ [](LET latest == GetLatestSnapshot(snapshots, latest_epoch) IN
          /\ latest.some <=> submitted # <<>>
          /\ latest_epoch.some <=> submitted # <<>>
          /\ submitted # <<>> =>
               /\ latest_epoch.val = MaxEpoch(submitted)
               /\ latest = GetSnapshot(snapshots, MaxEpoch(submitted))
               /\ latest.val.epoch = MaxEpoch(submitted)
               /\ Some(latest.val.hash) = LastAt(submitted, MaxEpoch(submitted)))
  /\ [][(/\ submitted' # submitted
         /\ latest_epoch.some
         /\ submitted'[Len(submitted')].epoch < latest_epoch.val) =>
          GetLatestSnapshot(snapshots', latest_epoch') =
            GetLatestSnapshot(snapshots, latest_epoch)
      ]_vars

\* C39 witness: h1 was submitted at epoch 3, then h2 at epoch 1; the latest
\* snapshot is still that of epoch 3
C39_Witness ==
  /\ submitted = <<[hash |-> "h1", epoch |-> 3], [hash |-> "h2", epoch |-> 1]>>
  /\ latest_epoch = Some(3)
  /\ GetLatestSnapshot(snapshots, latest_epoch).val.hash = "h1"
  /\ DOMAIN snapshots = {1, 3}

\* the hashes asked about: those submitted and one never submitted
AskedHashes == Hashes \cup {"h0"}

\* C40 as stated: verify_snapshot(hash) is true exactly when hash was
\* submitted by some earlier submit_snapshot call, whatever was submitted
\* later, a later submission at the same epoch included.
C40_VerifiesEverySubmittedHash ==
  \A h \in AskedHashes :
    VerifySnapshot(snapshots, h) <=>
      \E i \in DOMAIN submitted : submitted[i].hash = h

\* C40 amended: verify_snapshot(hash) is true exactly when hash is the hash
\* of the last submission made at some epoch: a submitted hash stays
\* verifiable after any later sequence of submissions at other epochs, a
\* later submission at the same epoch replaces it, and a hash never
\* submitted is never verified.
C40_VerifiesLastSubmittedPerEpoch ==
  \A h \in AskedHashes :
    /\ VerifySnapshot(snapshots, h) <=>
         \E e \in Epochs : LastAt(submitted, e) = Some(h)
    /\ VerifySnapshot(snapshots, h) =>
         \E i \in DOMAIN submitted : submitted[i].hash = h

\* C40 witness: h1 was submitted at epochs 1 and 2, then h2 at epoch 1: h1
\* is verified through epoch 2, h2 through epoch 1, h0 is not
C40_Witness ==
  /\ Len(submitted) = 3
  /\ submitted[1] = [hash |-> "h1", epoch |-> 1]
  /\ submitted[2] = [hash |-> "h1", epoch |-> 2]
  /\ submitted[3] = [hash |-> "h2", epoch |-> 1]
  /\ VerifySnapshot(snapshots, "h1")
  /\ VerifySnapshot(snapshots, "h2")
  /\ ~VerifySnapshot(snapshots, "h0")
  /\ snapshots[1].hash = "h2"

\* the keys a service's requests are compared on
ServiceKeys == Keys \cup {Format(CorridorPrefix, <<"b">>)}

\* the service is receiving an event in this step
ServiceHandles ==
  ServiceRecv /\ svcLag = 0 /\ svcQueue # <<>>

\* C34: a service built from default_rules() requests, for PaymentDetected,
\* AnchorStatusChanged and AdminInvalidate, the invalidation of exactly the
\* keys the background task removes for the event: those that contain
\* "corridor:<id>", "anchor:<id>" or the pattern.
C34_DefaultRulesMatchWorker ==
  [][(/\ ServiceHandles
      /\ rules = DefaultRules
      /\ Head(svcQueue).type \in {"PaymentDetected", "AnchorStatusChanged",
                                 "AdminInvalidate"}) =>
       \A k \in ServiceKeys :
         (\E i \in DOMAIN requested' : Matches(requested'[i], k))
           <=> Contains(k, EventPattern(Head(svcQueue)))
    ]_vars

\* C35: when the table holds a Prefix rule and a Pattern rule for the
\* trigger of the event received, the service applies the Pattern strategy
\* and not the Prefix strategy; a strategy is applied only for a rule whose
\* trigger is that of the event.
C35_PatternRuleWins ==
  [][ServiceHandles =>
       LET ev == Head(svcQueue)
           mine == {i \in DOMAIN rules : rules[i].trigger = FromEvent(ev)}
       IN  /\ \A i \in DOMAIN requested' :
                \E j \in mine : rules[j].strategy = requested'[i]
           /\ (/\ \E j \in mine : rules[j].strategy.kind = "Pattern"
               /\ \E j \in mine : rules[j].strategy.kind = "Prefix") =>
                /\ \E i \in DOMAIN requested' : requested'[i].kind = "Pattern"
                /\ \A i \in DOMAIN requested' : requested'[i].kind # "Prefix"
    ]_vars

\* C31: a subscriber that receives Lagged(n), the background task or the
\* service, records n, does not exit and stays subscribed to receive the
\* events that follow.
C31_LaggedSubscriberContinues ==
  [][/\ WorkerRecvLagged =>
          /\ lagLog' = Append(lagLog, rxLag)
          /\ wpc' # "w_dead"
          /\ subscribed'
     /\ (ServiceRecv /\ svcLag > 0) =>
          /\ lagLog' = Append(lagLog, svcLag)
          /\ spc' = "s_recv"
    ]_vars

\* C32: once the CacheManager is dropped the background task exits at its
\* next suspension point: the next step it takes is its last.
C32_TasksExitOnShutdown ==
  [][(dropped /\ WorkerStep) => wpc' = "w_dead"]_vars

====
